---- MODULE Spec2Model ----
(***************************************************************************)
(* Model of data-writer's `create` operation: Orchestrator.Run with its    *)
(* direct and streaming per-file pipelines (generator package), the CSV    *)
(* and Parquet producers, the Parquet streaming sink, and the older        *)
(* StreamingCoordinator (writer package).                                  *)
(***************************************************************************)
EXTENDS Integers, Sequences, FiniteSets, TLC

(* ---------------- bounds of the model ---------------- *)
StartFileNo == 1
EndFileNo == 3
MaxThreads == 2
MaxRows == 5
MaxChunkRows == 3
NumEncWrites == 2
MaxWriteLen == 3
ChunkSize == 2
MaxBatches == 2
RngMax == 1
MaxRowGroups == 2
MaxOpts == 2
MaxPrecision == 20
MaxCols == 2
DecBatchLen == 2

(* ---------------- program constants ---------------- *)
ChanCap == 4
BatchSize == 50
PrefixMul == 1000000007
PrefixMask == 31
ByteMax == 255
PercentMax == 100

\* the encoder issues NumEncWrites column-chunk writes (steps 0..NumEncWrites-1),
\* then the footer write made by pw.Close() (step FooterStep)
FooterStep == NumEncWrites

Files == StartFileNo..(EndFileNo - 1)
Nil == <<>>
CreateErr(f) == <<"create", f>>
WriteErr(f) == <<"write", f>>
GenErr(f) == <<"gen", f>>
CtxErr == <<"context canceled">>

VARIABLES
    streaming,    \* Run's streaming argument
    threads,      \* Run's threads argument
    format,       \* cfg.Common.FileFormat: "csv" or "parquet"
    rows,         \* cfg.Common.Rows
    chunkRows,    \* chunkCalculator.CalculateChunkSize(specs)
    encLens,      \* lengths of the writes the Parquet encoder issues per file
    impl,         \* which coordinator drives the run: "orch" or "coord"
    nextFile,     \* loop variable of the file loop
    runpc,        \* "loop", "wait", "returned"
    runErr,       \* the outer errgroup's err (set once)
    runResult,    \* what the run returned
    ctxCancelled, \* the cancellable context shared by a coordinator's files
    task,         \* per file: "idle", "run", "done"
    fileErr,      \* per file: what the file's task returned
    doneSeq,      \* the files in the order in which their tasks returned
    ppc,          \* per file: position of the producer (or of the direct task)
    upc,          \* per file: position of the uploader goroutine
    perr,         \* per file: error returned by the producer
    uerr,         \* per file: error returned by the uploader
    pairErr,      \* per file: the first error of the pair (the per-file errgroup's err)
    rowOffset,    \* per file: the CSV producer's loop variable
    ch,           \* per file: chunkChannel contents
    chClosed,     \* per file: chunkChannel closed
    w,            \* per file: the object writer [opened, closed, data, stored, late]
    sent,         \* per file: history of chunks handed to the channel
    sink,         \* per file: streamingParquetWriter [buf, lastSent]
    enc,          \* per file: the Parquet encoder [step, out, closed]
    filesCount,   \* ProgressLogger.files
    col,          \* the ColumnSpec of the generated integer column
    genFile,      \* fileNo of the file whose column values are generated
    genRow,       \* number of rows of that file generated so far
    genOut,       \* the values emitted for the column, in row order
    cfgStart,     \* cfg.Common.StartFileNo of a create command
    cfgEnd,       \* cfg.Common.EndFileNo of a create command
    rowGroups,    \* cfg.Parquet.NumRowGroups
    otherOk,      \* the remaining config fields (path, prefix, folders, sizes) are valid
    cmdpc,        \* create command: "validate", "rejected", "open", "gen", "done", "panic"
    cmdErr,       \* the error the create command reports
    curFile,      \* the file the create command is working on
    created,      \* the file numbers whose object was created in the store
    tbl,          \* the columns of the CREATE TABLE statement given to schema build
    buildpc,      \* schema build: "start" or "done"
    buildSpecs,   \* the specs GetSpecFromSQL returned
    buildErr,     \* the error GetSpecFromSQL returned
    buildOpts,    \* per column built so far, the options parseComment's loop was given
    numCols,      \* ParquetWriter.numCols
    pwpc,         \* generateParquetCommon: "idle", "start", "rg", "col", "batch", "done", "panic"
    pwErr,        \* the error generateParquetCommon returned
    pwRgs,        \* ParquetWriter.Write: row groups written so far
    currCol,      \* ParquetWriter.Write: the column loop variable
    pwRound,      \* writeNextColumn: rounds done
    startRowID,   \* ParquetWriter.Write: startRowID
    rowIDStart,   \* writeNextColumn: rowIDStart
    fillCalls,    \* history of the FillParquetBatch calls [col, rowIDStart, n]
    pwLog         \* history of the calls on the file writer and of the sink writes

fixedVars == <<streaming, threads, format, rows, chunkRows, encLens, impl>>
runVars == <<nextFile, runpc, runErr, runResult>>
pqVars == <<sink, enc>>
genVars == <<col, genFile, genRow, genOut>>
cmdVars == <<cfgStart, cfgEnd, rowGroups, otherOk, cmdpc, cmdErr, curFile, created>>
bldVars == <<tbl, buildpc, buildSpecs, buildErr, buildOpts>>
pwVars == <<numCols, pwpc, pwErr, pwRgs, currCol, pwRound, startRowID, rowIDStart,
            fillCalls, pwLog>>
vars == <<streaming, threads, format, rows, chunkRows, encLens, impl, nextFile, runpc,
          runErr, runResult, ctxCancelled, task, fileErr, doneSeq, ppc, upc, perr,
          uerr, pairErr, rowOffset, ch, chClosed, w, sent, sink, enc, filesCount,
          col, genFile, genRow, genOut,
          cfgStart, cfgEnd, rowGroups, otherOk, cmdpc, cmdErr, curFile, created,
          tbl, buildpc, buildSpecs, buildErr, buildOpts,
          numCols, pwpc, pwErr, pwRgs, currCol, pwRound, startRowID, rowIDStart,
          fillCalls, pwLog>>

(* ---------------- helpers ---------------- *)
Min(a, b) == IF a < b THEN a ELSE b

RECURSIVE Concat(_)
Concat(ss) == IF ss = <<>> THEN <<>> ELSE Head(ss) \o Concat(Tail(ss))

\* mutant: a later error overwrites the recorded one
FirstErr_LastWins(old, new) == IF new # Nil THEN new ELSE old

\* the first error wins, as in errgroup's errOnce
FirstErr(old, new) == IF old = Nil THEN new ELSE old

InFlight == {f \in Files : task[f] = "run"}

\* data: the bytes handed to Write so far; stored: the content of the object
NewWriter == [opened |-> FALSE, closed |-> 0, data |-> <<>>, stored |-> <<>>,
              late |-> FALSE]

\* writer.Write(ctx, data): the bytes are handed to the object writer, which
\* appends all of them
WriterWrite(wr, data) ==
    [wr EXCEPT !.data = @ \o data, !.stored = @ \o data,
               !.late = @ \/ (wr.closed > 0)]

\* a Write that accepts only the first n bytes of its input and returns
\* (n, nil): the object store interface is append-only and permits it
WriterWritePartial(wr, data, n) ==
    [wr EXCEPT !.data = @ \o data, !.stored = @ \o SubSeq(data, 1, n),
               !.late = @ \/ (wr.closed > 0)]

\* writer.Close(ctx)
WriterClose(wr) == [wr EXCEPT !.closed = @ + 1]

(* ---------------- CSV producer ---------------- *)
\* rowsInChunk := min(chunkRows, totalRows-rowOffset)
RowsInChunk(off) == Min(chunkRows, rows - off)

\* mutant: strict comparison
ChunkIsLast_Strict(off) == off + chunkRows > rows

\* isLast := rowOffset+chunkRows >= totalRows
ChunkIsLast(off) == off + chunkRows >= rows

\* the lines of one chunk: one line per rowID = startRowID + rowOffset + i
ChunkData(f, off) == [i \in 1..RowsInChunk(off) |-> f * rows + off + (i - 1)]

CsvChunk(f, off) == [data |-> ChunkData(f, off), isLast |-> ChunkIsLast(off)]

(* ---------------- ColumnSpec: schema build and integer generation ---------------- *)
\* the integer SQL types whose values fit the model's integers (bigint shifts
\* the prefix by 58 bits)
IntTypes == {"tinyint", "smallint", "mediumint", "int"}

\* DefaultSpecs[...].TypeLen
DefaultTypeLen(t) ==
    CASE t = "tinyint" -> 8
      [] t = "smallint" -> 16
      [] t = "mediumint" -> 24
      [] t = "int" -> 32

\* parseComment: c.Order = NumericRandomOrder, then the order option if any
ParseOrder(opt) ==
    CASE opt = "total_order" -> "NumericTotalOrder"
      [] opt = "partial_order" -> "NumericPartialOrder"
      [] OTHER -> "NumericRandomOrder"

\* GetSpecFromSQL for one integer column: the default spec of its type,
\* Order = NumericRandomOrder, the comment options, the unique flag
BuildSpec(t, opt, set, sd, uniq) ==
    [sqlType |-> t, typeLen |-> DefaultTypeLen(t), orderOpt |-> opt,
     order |-> ParseOrder(opt), intSet |-> set, stdDev |-> sd, mean |-> 0,
     isUnique |-> uniq]

RECURSIVE Pow2(_)
Pow2(n) == IF n = 0 THEN 1 ELSE 2 * Pow2(n - 1)

\* (rowID * 1000000007) & 31 for rowID >= 0, computed on the residues so that
\* the product stays within the model's integers
RandPrefix(rowID) ==
    ((rowID % (PrefixMask + 1)) * (PrefixMul % (PrefixMask + 1))) % (PrefixMask + 1)

\* generatePartialOrderInt
GeneratePartialOrderInt(c, rowID) == RandPrefix(rowID) * Pow2(c.typeLen - 6) + rowID

\* generateGaussianInt with the draw r: a rounded value within stddev of the
\* mean (the clamp to the type's range does not act on values this small)
GenerateGaussianInt(c, r) == c.mean - c.stdDev + (r % (2 * c.stdDev + 1))

\* generateInt with the rng draw r: the value and the column spec it leaves
GenerateInt_PromotesRandom(c, rowID, r) ==
    IF Len(c.intSet) > 0
    THEN [val |-> c.intSet[(r % Len(c.intSet)) + 1], col |-> c]
    ELSE IF c.stdDev > 0
    THEN [val |-> GenerateGaussianInt(c, r), col |-> c]
    ELSE LET c2 == IF c.isUnique /\ c.order = "NumericRandomOrder"
                   THEN [c EXCEPT !.order = "NumericTotalOrder"]
                   ELSE c
         IN [val |-> CASE c2.order = "NumericTotalOrder" -> rowID
                       [] c2.order = "NumericPartialOrder" ->
                            IF rowID % 32 = 0
                            THEN GeneratePartialOrderInt(c2, rowID)
                            ELSE rowID
                       [] c2.order = "NumericRandomOrder" ->
                            GeneratePartialOrderInt(c2, rowID)
                       [] OTHER -> rowID,
             col |-> c2]

GenerateInt(c, rowID, r) ==
    IF Len(c.intSet) > 0
    THEN [val |-> c.intSet[(r % Len(c.intSet)) + 1], col |-> c]
    ELSE IF c.stdDev > 0
    THEN [val |-> GenerateGaussianInt(c, r), col |-> c]
    ELSE LET c2 == IF c.isUnique /\ c.order = "NumericNoOrder"
                   THEN [c EXCEPT !.order = "NumericTotalOrder"]
                   ELSE c
         IN [val |-> CASE c2.order = "NumericNoOrder" -> r
                       [] c2.order = "NumericTotalOrder" -> rowID
                       [] c2.order = "NumericPartialOrder" ->
                            IF rowID % 32 = 0
                            THEN GeneratePartialOrderInt(c2, rowID)
                            ELSE rowID
                       [] c2.order = "NumericRandomOrder" ->
                            GeneratePartialOrderInt(c2, rowID)
                       [] OTHER -> rowID,
             col |-> c2]

\* strconv.FormatInt(v, 10): the decimal digits, most significant first
RECURSIVE FormatNat(_)
FormatNat(n) == IF n < 10 THEN <<n>> ELSE Append(FormatNat(n \div 10), n % 10)

FormatInt(v) == IF v < 0 THEN <<"-">> \o FormatNat(0 - v) ELSE FormatNat(v)

\* int32(v): every integer of the model is within int32
ToInt32(v) == v

\* the loop of generateInt32Parquet from slot i on, with null_percent = 0:
\* out[i] = int32(c.generateInt(rowID+i, rng)); the draw of slot i is r + i
RECURSIVE FillInt32From(_, _, _, _, _, _)
FillInt32From(c, rowID, i, n, r, out) ==
    IF i = n THEN [vals |-> out, col |-> c]
    ELSE LET g == GenerateInt(c, rowID + i, r + i)
         IN FillInt32From(g.col, rowID, i + 1, n, r, Append(out, ToInt32(g.val)))

\* generateInt32Parquet over a batch of n slots
GenerateInt32Parquet(c, rowID, n, r) == FillInt32From(c, rowID, 0, n, r, <<>>)

\* schema build has finished before a run or a generation starts
InitNoBuild ==
    /\ tbl = <<>>
    /\ buildpc = 0
    /\ buildSpecs = <<>>
    /\ buildErr = Nil
    /\ buildOpts = <<>>

\* the create command's own variables when only Run is modelled
InitNoCmd ==
    /\ cfgStart = StartFileNo
    /\ cfgEnd = EndFileNo
    /\ rowGroups = 1
    /\ otherOk = TRUE
    /\ cmdpc = "open"
    /\ cmdErr = Nil
    /\ curFile = StartFileNo
    /\ created = {}

\* no Parquet file writer is at work
InitNoPw ==
    /\ numCols = 1
    /\ pwpc = "idle"
    /\ pwErr = Nil
    /\ pwRgs = 0
    /\ currCol = 0
    /\ pwRound = 0
    /\ startRowID = 0
    /\ rowIDStart = 0
    /\ fillCalls = <<>>
    /\ pwLog = <<>>

\* the run variables do not take part in column generation
InitNoGen ==
    /\ col = BuildSpec("int", "", <<>>, 0, FALSE)
    /\ genFile = StartFileNo
    /\ genRow = 0
    /\ genOut = <<>>

(* ---------------- initial state ---------------- *)
InitFiles ==
    /\ nextFile = StartFileNo
    /\ runpc = IF StartFileNo < EndFileNo THEN "loop" ELSE "wait"
    /\ runErr = Nil
    /\ runResult = Nil
    /\ ctxCancelled = FALSE
    /\ task = [f \in Files |-> "idle"]
    /\ fileErr = [f \in Files |-> Nil]
    /\ doneSeq = <<>>
    /\ ppc = [f \in Files |-> "idle"]
    /\ upc = [f \in Files |-> "idle"]
    /\ perr = [f \in Files |-> Nil]
    /\ uerr = [f \in Files |-> Nil]
    /\ pairErr = [f \in Files |-> Nil]
    /\ rowOffset = [f \in Files |-> 0]
    /\ ch = [f \in Files |-> <<>>]
    /\ chClosed = [f \in Files |-> FALSE]
    /\ w = [f \in Files |-> NewWriter]
    /\ sent = [f \in Files |-> <<>>]
    /\ sink = [f \in Files |-> [buf |-> <<>>, lastSent |-> 0]]
    /\ enc = [f \in Files |-> [step |-> 0, out |-> <<>>, closed |-> FALSE]]
    /\ filesCount = 0

\* a CSV run: the encoder is not used
InitCsv ==
    /\ format = "csv"
    /\ rows \in 1..MaxRows
    /\ chunkRows \in 1..MaxChunkRows
    /\ encLens = [k \in 0..FooterStep |-> 1]

Init ==
    /\ impl = "orch"
    /\ streaming \in BOOLEAN
    /\ threads \in 1..MaxThreads
    /\ InitCsv
    /\ InitFiles /\ InitNoPw
    /\ InitNoGen
    /\ InitNoCmd
    /\ InitNoBuild

\* a Parquet run: the chunk calculator is not used. Parquet files are
\* generated one at a time here; files in flight together are covered by the
\* CSV run
InitPq ==
    /\ impl = "orch"
    /\ streaming \in BOOLEAN
    /\ threads = 1
    /\ format = "parquet"
    /\ rows = MaxRows
    /\ chunkRows = 1
    /\ encLens \in [0..FooterStep -> 1..MaxWriteLen]
    /\ InitFiles /\ InitNoPw
    /\ InitNoGen
    /\ InitNoCmd
    /\ InitNoBuild

(* ---------------- Orchestrator.Run ---------------- *)
\* eg.Go in the file loop: blocks until one of the `threads` slots is free
RunGo(f) ==
    /\ impl = "orch"
    /\ runpc = "loop"
    /\ nextFile = f
    /\ Cardinality(InFlight) < threads
    /\ task' = [task EXCEPT ![f] = "run"]
    /\ nextFile' = f + 1
    /\ runpc' = IF f + 1 < EndFileNo THEN "loop" ELSE "wait"
    /\ IF streaming
       THEN /\ ppc' = [ppc EXCEPT ![f] = IF format = "csv" THEN "gen" ELSE "enc"]
            /\ upc' = [upc EXCEPT ![f] = "open"]
       ELSE /\ ppc' = [ppc EXCEPT ![f] = "dopen"]
            /\ upc' = upc
    /\ UNCHANGED <<fixedVars, genVars, cmdVars, bldVars, pwVars, runErr, runResult, ctxCancelled, fileErr, doneSeq, perr, uerr,
                   pairErr, rowOffset, ch, chClosed, w, sent, pqVars, filesCount>>

\* eg.Wait in Run: returns the first recorded error once every task is done
RunWait ==
    /\ impl = "orch"
    /\ runpc = "wait"
    /\ \A f \in Files : task[f] = "done"
    /\ runResult' = runErr
    /\ runpc' = "returned"
    /\ UNCHANGED <<fixedVars, genVars, cmdVars, bldVars, pwVars, nextFile, runErr, ctxCancelled, task, fileErr, doneSeq, ppc,
                   upc, perr, uerr, pairErr, rowOffset, ch, chClosed, w, sent,
                   pqVars, filesCount>>

(* ---------------- CSVGenerator.GenerateFileStreaming ---------------- *)
\* mutant: the send does not wait for room in the channel
CsvSend_NoBlock(f) ==
    /\ impl = "orch"
    /\ ppc[f] = "gen"
    /\ rowOffset[f] < rows
    /\ ch' = [ch EXCEPT ![f] = Append(@, CsvChunk(f, rowOffset[f]))]
    /\ sent' = [sent EXCEPT ![f] = Append(@, CsvChunk(f, rowOffset[f]))]
    /\ rowOffset' = [rowOffset EXCEPT ![f] = @ + chunkRows]
    /\ UNCHANGED <<fixedVars, genVars, cmdVars, bldVars, pwVars, runVars, ctxCancelled, task, fileErr, doneSeq, ppc, upc, perr,
                   uerr, pairErr, chClosed, w, pqVars, filesCount>>

\* one loop iteration: build the chunk and send it (blocks while ch is full);
\* the context of Run is context.Background(), its Done channel never fires
CsvSend(f) ==
    /\ impl = "orch"
    /\ ppc[f] = "gen"
    /\ rowOffset[f] < rows
    /\ Len(ch[f]) < ChanCap
    /\ ch' = [ch EXCEPT ![f] = Append(@, CsvChunk(f, rowOffset[f]))]
    /\ sent' = [sent EXCEPT ![f] = Append(@, CsvChunk(f, rowOffset[f]))]
    /\ rowOffset' = [rowOffset EXCEPT ![f] = @ + chunkRows]
    /\ UNCHANGED <<fixedVars, genVars, cmdVars, bldVars, pwVars, runVars, ctxCancelled, task, fileErr, doneSeq, ppc, upc, perr,
                   uerr, pairErr, chClosed, w, pqVars, filesCount>>

\* the loop ends, the producer returns nil and the deferred close(ch) runs
CsvReturn(f) ==
    /\ impl = "orch"
    /\ ppc[f] = "gen"
    /\ rowOffset[f] >= rows
    /\ ppc' = [ppc EXCEPT ![f] = "done"]
    /\ chClosed' = [chClosed EXCEPT ![f] = TRUE]
    /\ UNCHANGED <<fixedVars, genVars, cmdVars, bldVars, pwVars, runVars, ctxCancelled, task, fileErr, doneSeq, upc, perr, uerr,
                   pairErr, rowOffset, ch, w, sent, pqVars, filesCount>>

(* ---------------- generateStreaming: the uploader goroutine ---------------- *)
\* o.openWriter: store.Create succeeds or fails
UpOpen(f) ==
    /\ impl = "orch"
    /\ upc[f] = "open"
    /\ \E ok \in BOOLEAN :
         IF ok
         THEN /\ w' = [w EXCEPT ![f].opened = TRUE]
              /\ upc' = [upc EXCEPT ![f] = "loop"]
              /\ UNCHANGED <<uerr, pairErr>>
         ELSE /\ upc' = [upc EXCEPT ![f] = "done"]
              /\ uerr' = [uerr EXCEPT ![f] = CreateErr(f)]
              /\ pairErr' = [pairErr EXCEPT ![f] = FirstErr(@, CreateErr(f))]
              /\ w' = w
    /\ UNCHANGED <<fixedVars, genVars, cmdVars, bldVars, pwVars, runVars, ctxCancelled, task, fileErr, doneSeq, ppc, perr,
                   rowOffset, ch, chClosed, sent, pqVars, filesCount>>

\* mutant: IsLast is tested before the Write, the final chunk is not written
UploaderTake_SkipLast(f, chunk, ok) ==
    LET wr == IF chunk.isLast THEN w[f] ELSE WriterWrite(w[f], chunk.data)
        stop == ~ok \/ chunk.isLast
    IN /\ w' = [w EXCEPT ![f] = IF stop THEN WriterClose(wr) ELSE wr]
       /\ upc' = [upc EXCEPT ![f] = IF stop THEN "done" ELSE "loop"]
       /\ uerr' = [uerr EXCEPT ![f] = IF ok THEN Nil ELSE WriteErr(f)]
       /\ pairErr' = [pairErr EXCEPT ![f] = IF ok THEN @ ELSE FirstErr(@, WriteErr(f))]

\* what the uploader does with a received chunk: Write, then return on a
\* Write error or on IsLast (the deferred writer.Close runs on return)
UploaderTake(f, chunk, ok) ==
    LET wr == WriterWrite(w[f], chunk.data)
        stop == ~ok \/ chunk.isLast
    IN /\ w' = [w EXCEPT ![f] = IF stop THEN WriterClose(wr) ELSE wr]
       /\ upc' = [upc EXCEPT ![f] = IF stop THEN "done" ELSE "loop"]
       /\ uerr' = [uerr EXCEPT ![f] = IF ok THEN Nil ELSE WriteErr(f)]
       /\ pairErr' = [pairErr EXCEPT ![f] = IF ok THEN @ ELSE FirstErr(@, WriteErr(f))]

\* case chunk, ok := <-chunkChannel with ok = true
UpRecv(f) ==
    /\ impl = "orch"
    /\ upc[f] = "loop"
    /\ ch[f] # <<>>
    /\ ch' = [ch EXCEPT ![f] = Tail(@)]
    /\ \E ok \in BOOLEAN : UploaderTake(f, Head(ch[f]), ok)
    /\ UNCHANGED <<fixedVars, genVars, cmdVars, bldVars, pwVars, runVars, ctxCancelled, task, fileErr, doneSeq, ppc, perr,
                   rowOffset, chClosed, sent, pqVars, filesCount>>

\* case chunk, ok := <-chunkChannel with a writer that accepts n bytes of the
\* chunk and returns (n, nil): the uploader discards n and goes on
UpRecvPartial(f) ==
    /\ impl = "orch"
    /\ upc[f] = "loop"
    /\ ch[f] # <<>>
    /\ ch' = [ch EXCEPT ![f] = Tail(@)]
    /\ \E n \in 0..(Len(Head(ch[f]).data) - 1) :
         LET chunk == Head(ch[f])
             wr == WriterWritePartial(w[f], chunk.data, n)
         IN /\ w' = [w EXCEPT ![f] = IF chunk.isLast THEN WriterClose(wr) ELSE wr]
            /\ upc' = [upc EXCEPT ![f] = IF chunk.isLast THEN "done" ELSE "loop"]
    /\ UNCHANGED <<fixedVars, genVars, cmdVars, bldVars, pwVars, runVars, ctxCancelled, task, fileErr, doneSeq, ppc, perr,
                   uerr, pairErr, rowOffset, chClosed, sent, pqVars, filesCount>>

\* mutant: the uploader returns on a closed channel without closing the writer
UpClosed_NoClose(f) ==
    /\ impl = "orch"
    /\ upc[f] = "loop"
    /\ ch[f] = <<>>
    /\ chClosed[f]
    /\ upc' = [upc EXCEPT ![f] = "done"]
    /\ UNCHANGED <<fixedVars, genVars, cmdVars, bldVars, pwVars, runVars, ctxCancelled, task, fileErr, doneSeq, ppc, perr, uerr,
                   pairErr, rowOffset, ch, chClosed, w, sent, pqVars, filesCount>>

\* case chunk, ok := <-chunkChannel with ok = false: closed and drained
UpClosed(f) ==
    /\ impl = "orch"
    /\ upc[f] = "loop"
    /\ ch[f] = <<>>
    /\ chClosed[f]
    /\ w' = [w EXCEPT ![f] = WriterClose(@)]
    /\ upc' = [upc EXCEPT ![f] = "done"]
    /\ UNCHANGED <<fixedVars, genVars, cmdVars, bldVars, pwVars, runVars, ctxCancelled, task, fileErr, doneSeq, ppc, perr, uerr,
                   pairErr, rowOffset, ch, chClosed, sent, pqVars, filesCount>>

(* ---------------- generateStreaming: eg.Wait and return ---------------- *)
\* mutant: the counter is incremented before the error check
CountAfterPair_Always(n, e) == n + 1

\* the files counter after a pair settled with error e
CountAfterPair(n, e) == IF e = Nil THEN n + 1 ELSE n

PairWait(f) ==
    /\ impl = "orch"
    /\ streaming
    /\ task[f] = "run"
    /\ ppc[f] = "done"
    /\ upc[f] = "done"
    /\ filesCount' = CountAfterPair(filesCount, pairErr[f])
    /\ fileErr' = [fileErr EXCEPT ![f] = pairErr[f]]
    /\ doneSeq' = Append(doneSeq, f)
    /\ runErr' = FirstErr(runErr, pairErr[f])
    /\ task' = [task EXCEPT ![f] = "done"]
    /\ UNCHANGED <<fixedVars, genVars, cmdVars, bldVars, pwVars, nextFile, runpc, runResult, ctxCancelled, ppc, upc,
                   perr, uerr, pairErr, rowOffset, ch, chClosed, w, sent, pqVars>>

(* ---------------- Parquet producer and streaming sink ---------------- *)
\* the bytes of the encoder's next write; bytes are numbered in emission order
EncBytes(e) == [i \in 1..encLens[e.step] |-> Len(e.out) + i]

\* streamingParquetWriter.Write, first statement: w.buffer.Write(data)
SinkAppend(s, data) == [s EXCEPT !.buf = @ \o data]

\* the loop condition: w.buffer.Len()-w.lastSent >= w.chunkSize
SinkHasChunk_Strict(s) == Len(s.buf) - s.lastSent > ChunkSize

SinkHasChunk(s) == Len(s.buf) - s.lastSent >= ChunkSize

\* the chunk built in the loop body: a copy of chunkSize bytes from lastSent
SinkChunk(s) ==
    [data |-> SubSeq(s.buf, s.lastSent + 1, s.lastSent + ChunkSize), isLast |-> FALSE]

\* the buffer reset after the loop, when lastSent >= chunkSize*4
SinkCompact_DropsTail(s) ==
    IF s.lastSent >= ChunkSize * 4 THEN [buf |-> <<>>, lastSent |-> 0] ELSE s

SinkCompact(s) ==
    IF s.lastSent >= ChunkSize * 4
    THEN [buf |-> SubSeq(s.buf, s.lastSent + 1, Len(s.buf)), lastSent |-> 0]
    ELSE s

\* writeWrapper.Close, which file.Writer.Close calls on its sink: it returns
\* nil and does not forward to Writer.Close; the chunks it adds to the channel
WrapperCloseChunks(s) == <<>>

\* the encoder writes to its sink; in streaming mode the sink is the
\* streamingParquetWriter, whose Write first appends to the buffer
PqEncWrite(f) ==
    /\ impl = "orch"
    /\ ppc[f] = "enc"
    /\ enc[f].step <= FooterStep
    /\ sink' = [sink EXCEPT ![f] = SinkAppend(@, EncBytes(enc[f]))]
    /\ enc' = [enc EXCEPT ![f].out = @ \o EncBytes(enc[f])]
    /\ ppc' = [ppc EXCEPT ![f] = "sinkloop"]
    /\ UNCHANGED <<fixedVars, genVars, cmdVars, bldVars, pwVars, runVars, ctxCancelled, task, fileErr, doneSeq, upc, perr, uerr,
                   pairErr, rowOffset, ch, chClosed, w, sent, filesCount>>

\* one iteration of the send loop of streamingParquetWriter.Write
PqSinkSend(f) ==
    /\ impl = "orch"
    /\ ppc[f] = "sinkloop"
    /\ SinkHasChunk(sink[f])
    /\ Len(ch[f]) < ChanCap
    /\ ch' = [ch EXCEPT ![f] = Append(@, SinkChunk(sink[f]))]
    /\ sent' = [sent EXCEPT ![f] = Append(@, SinkChunk(sink[f]))]
    /\ sink' = [sink EXCEPT ![f].lastSent = @ + ChunkSize]
    /\ UNCHANGED <<fixedVars, genVars, cmdVars, bldVars, pwVars, runVars, ctxCancelled, task, fileErr, doneSeq, ppc, upc, perr,
                   uerr, pairErr, rowOffset, chClosed, w, enc, filesCount>>

\* the send loop ends; the buffer is compacted and Write returns to the encoder
PqSinkReturn(f) ==
    /\ impl = "orch"
    /\ ppc[f] = "sinkloop"
    /\ ~SinkHasChunk(sink[f])
    /\ sink' = [sink EXCEPT ![f] = SinkCompact(@)]
    /\ enc' = [enc EXCEPT ![f].step = @ + 1]
    /\ ppc' = [ppc EXCEPT ![f] = IF enc[f].step = FooterStep THEN "pqclose" ELSE "enc"]
    /\ UNCHANGED <<fixedVars, genVars, cmdVars, bldVars, pwVars, runVars, ctxCancelled, task, fileErr, doneSeq, upc, perr, uerr,
                   pairErr, rowOffset, ch, chClosed, w, sent, filesCount>>

\* after the footer, file.Writer.Close closes its sink (writeWrapper.Close),
\* generateParquetCommon returns nil and the deferred close(ch) runs
PqReturn(f) ==
    /\ impl = "orch"
    /\ ppc[f] = "pqclose"
    /\ Len(ch[f]) + Len(WrapperCloseChunks(sink[f])) <= ChanCap
    /\ ch' = [ch EXCEPT ![f] = @ \o WrapperCloseChunks(sink[f])]
    /\ sent' = [sent EXCEPT ![f] = @ \o WrapperCloseChunks(sink[f])]
    /\ enc' = [enc EXCEPT ![f].closed = TRUE]
    /\ ppc' = [ppc EXCEPT ![f] = "done"]
    /\ chClosed' = [chClosed EXCEPT ![f] = TRUE]
    /\ UNCHANGED <<fixedVars, genVars, cmdVars, bldVars, pwVars, runVars, ctxCancelled, task, fileErr, doneSeq, upc, perr, uerr,
                   pairErr, rowOffset, w, sink, filesCount>>

\* a batch filler or the encoder returns an error: pw.Write returns it,
\* generateParquetCommon returns it without pw.Close, and close(ch) runs
PqFail(f) ==
    /\ impl = "orch"
    /\ ppc[f] = "enc"
    /\ enc[f].step < FooterStep
    /\ ppc' = [ppc EXCEPT ![f] = "done"]
    /\ perr' = [perr EXCEPT ![f] = GenErr(f)]
    /\ pairErr' = [pairErr EXCEPT ![f] = FirstErr(@, GenErr(f))]
    /\ chClosed' = [chClosed EXCEPT ![f] = TRUE]
    /\ UNCHANGED <<fixedVars, genVars, cmdVars, bldVars, pwVars, runVars, ctxCancelled, task, fileErr, doneSeq, upc, uerr,
                   rowOffset, ch, w, sent, pqVars, filesCount>>

(* ---------------- generateDirect ---------------- *)
\* a direct task returns err: the outer errgroup records it, the slot is freed
DirDone(f, err) ==
    /\ fileErr' = [fileErr EXCEPT ![f] = err]
    /\ doneSeq' = Append(doneSeq, f)
    /\ runErr' = FirstErr(runErr, err)
    /\ task' = [task EXCEPT ![f] = "done"]
    /\ ppc' = [ppc EXCEPT ![f] = "done"]

\* o.openWriter; on failure generateDirect returns before the defer
DirOpen(f) ==
    /\ impl = "orch"
    /\ ppc[f] = "dopen"
    /\ \E ok \in BOOLEAN :
         IF ok
         THEN /\ w' = [w EXCEPT ![f].opened = TRUE]
              /\ ppc' = [ppc EXCEPT ![f] = "dgen"]
              /\ UNCHANGED <<fileErr, doneSeq, runErr, task>>
         ELSE /\ DirDone(f, CreateErr(f))
              /\ w' = w
    /\ UNCHANGED <<fixedVars, genVars, cmdVars, bldVars, pwVars, nextFile, runpc, runResult, ctxCancelled, upc, perr,
                   uerr, pairErr, rowOffset, ch, chClosed, sent, pqVars, filesCount>>

\* CSVGenerator.GenerateFile: one row per Write; a Write error is returned
\* and the deferred writer.Close runs
DirCsvWrite(f) ==
    /\ impl = "orch"
    /\ format = "csv"
    /\ ppc[f] = "dgen"
    /\ rowOffset[f] < rows
    /\ \E ok \in BOOLEAN :
         LET wr == WriterWrite(w[f], <<f * rows + rowOffset[f]>>)
         IN IF ok
            THEN /\ w' = [w EXCEPT ![f] = wr]
                 /\ rowOffset' = [rowOffset EXCEPT ![f] = @ + 1]
                 /\ UNCHANGED <<fileErr, doneSeq, runErr, task, ppc>>
            ELSE /\ w' = [w EXCEPT ![f] = WriterClose(wr)]
                 /\ DirDone(f, WriteErr(f))
                 /\ rowOffset' = rowOffset
    /\ UNCHANGED <<fixedVars, genVars, cmdVars, bldVars, pwVars, nextFile, runpc, runResult, ctxCancelled, upc, perr,
                   uerr, pairErr, ch, chClosed, sent, pqVars, filesCount>>

\* ParquetGenerator.GenerateFile: the encoder writes through writeWrapper.Write
\* to the object writer; an error of a column-chunk write is returned by
\* pw.Write, an error of the footer write is dropped by ParquetWriter.Close
DirPqWrite(f) ==
    /\ impl = "orch"
    /\ format = "parquet"
    /\ ppc[f] = "dgen"
    /\ enc[f].step <= FooterStep
    /\ \E ok \in BOOLEAN :
         LET wr == WriterWrite(w[f], EncBytes(enc[f]))
         IN IF ok \/ enc[f].step = FooterStep
            THEN /\ w' = [w EXCEPT ![f] = wr]
                 /\ enc' = [enc EXCEPT ![f].out = @ \o EncBytes(enc[f]),
                                       ![f].step = @ + 1,
                                       ![f].closed = (enc[f].step = FooterStep)]
                 /\ UNCHANGED <<fileErr, doneSeq, runErr, task, ppc>>
            ELSE /\ w' = [w EXCEPT ![f] = WriterClose(wr)]
                 /\ DirDone(f, WriteErr(f))
                 /\ enc' = enc
    /\ UNCHANGED <<fixedVars, genVars, cmdVars, bldVars, pwVars, nextFile, runpc, runResult, ctxCancelled, upc, perr,
                   uerr, pairErr, rowOffset, ch, chClosed, sent, sink, filesCount>>

\* GenerateFile returned nil: UpdateFiles(1), return nil, deferred writer.Close
DirReturn(f) ==
    /\ impl = "orch"
    /\ ppc[f] = "dgen"
    /\ IF format = "csv" THEN rowOffset[f] >= rows ELSE enc[f].step > FooterStep
    /\ filesCount' = CountAfterPair(filesCount, Nil)
    /\ w' = [w EXCEPT ![f] = WriterClose(@)]
    /\ DirDone(f, Nil)
    /\ UNCHANGED <<fixedVars, genVars, cmdVars, bldVars, pwVars, nextFile, runpc, runResult, ctxCancelled, upc, perr,
                   uerr, pairErr, rowOffset, ch, chClosed, sent, pqVars>>

(* ---------------- StreamingCoordinator.CoordinateStreaming ---------------- *)
\* the coordinator of the writer package: one cancellable context is shared by
\* every file of the run
InitCoord ==
    /\ impl = "coord"
    /\ streaming = TRUE
    /\ threads \in 1..MaxThreads
    /\ InitCsv
    /\ InitFiles /\ InitNoPw
    /\ InitNoGen
    /\ InitNoCmd
    /\ InitNoBuild

\* eg.Go in the file loop; the task starts the writer goroutine and then
\* runs the producer itself
CoGo(f) ==
    /\ impl = "coord"
    /\ runpc = "loop"
    /\ nextFile = f
    /\ Cardinality(InFlight) < threads
    /\ task' = [task EXCEPT ![f] = "run"]
    /\ nextFile' = f + 1
    /\ runpc' = IF f + 1 < EndFileNo THEN "loop" ELSE "wait"
    /\ ppc' = [ppc EXCEPT ![f] = "gen"]
    /\ upc' = [upc EXCEPT ![f] = "open"]
    /\ UNCHANGED <<fixedVars, genVars, cmdVars, bldVars, pwVars, runErr, runResult, ctxCancelled, fileErr, doneSeq, perr, uerr,
                   pairErr, rowOffset, ch, chClosed, w, sent, pqVars, filesCount>>

\* the producer's select takes the send case (ready while ch is not full,
\* also when the context is cancelled: select picks among the ready cases)
CoCsvSend(f) ==
    /\ impl = "coord"
    /\ ppc[f] = "gen"
    /\ rowOffset[f] < rows
    /\ Len(ch[f]) < ChanCap
    /\ ch' = [ch EXCEPT ![f] = Append(@, CsvChunk(f, rowOffset[f]))]
    /\ sent' = [sent EXCEPT ![f] = Append(@, CsvChunk(f, rowOffset[f]))]
    /\ rowOffset' = [rowOffset EXCEPT ![f] = @ + chunkRows]
    /\ UNCHANGED <<fixedVars, genVars, cmdVars, bldVars, pwVars, runVars, ctxCancelled, task, fileErr, doneSeq, ppc, upc, perr,
                   uerr, pairErr, chClosed, w, pqVars, filesCount>>

\* the producer's select takes <-ctx.Done(): it returns ctx.Err(), the task
\* closes the channel and calls cancel()
CoCsvCancelled(f) ==
    /\ impl = "coord"
    /\ ppc[f] = "gen"
    /\ rowOffset[f] < rows
    /\ ctxCancelled
    /\ ppc' = [ppc EXCEPT ![f] = "done"]
    /\ perr' = [perr EXCEPT ![f] = CtxErr]
    /\ pairErr' = [pairErr EXCEPT ![f] = FirstErr(@, CtxErr)]
    /\ chClosed' = [chClosed EXCEPT ![f] = TRUE]
    /\ ctxCancelled' = TRUE
    /\ UNCHANGED <<fixedVars, genVars, cmdVars, bldVars, pwVars, runVars, task, fileErr, doneSeq, upc, uerr,
                   rowOffset, ch, w, sent, pqVars, filesCount>>

\* the producer's loop ends: it returns nil and the task closes the channel
CoCsvReturn(f) ==
    /\ impl = "coord"
    /\ ppc[f] = "gen"
    /\ rowOffset[f] >= rows
    /\ ppc' = [ppc EXCEPT ![f] = "done"]
    /\ chClosed' = [chClosed EXCEPT ![f] = TRUE]
    /\ UNCHANGED <<fixedVars, genVars, cmdVars, bldVars, pwVars, runVars, ctxCancelled, task, fileErr, doneSeq, upc, perr, uerr,
                   pairErr, rowOffset, ch, w, sent, pqVars, filesCount>>

\* fileWriter: sc.store.Create; on failure fileWriter returns the error and
\* the writer goroutine calls cancel()
CoUpCreate(f) ==
    /\ impl = "coord"
    /\ upc[f] = "open"
    /\ \E ok \in BOOLEAN :
         IF ok
         THEN /\ w' = [w EXCEPT ![f].opened = TRUE]
              /\ upc' = [upc EXCEPT ![f] = "loop"]
              /\ UNCHANGED <<uerr, pairErr, ctxCancelled>>
         ELSE /\ upc' = [upc EXCEPT ![f] = "done"]
              /\ uerr' = [uerr EXCEPT ![f] = CreateErr(f)]
              /\ pairErr' = [pairErr EXCEPT ![f] = FirstErr(@, CreateErr(f))]
              /\ ctxCancelled' = TRUE
              /\ w' = w
    /\ UNCHANGED <<fixedVars, genVars, cmdVars, bldVars, pwVars, runVars, task, fileErr, doneSeq, ppc, perr,
                   rowOffset, ch, chClosed, sent, pqVars, filesCount>>

\* fileWriter's loop body for a received chunk: Write unless the chunk is
\* empty; on a Write error return it (deferred Close, then cancel()); break
\* on IsLast (deferred Close)
CoWriterTake(f, chunk, ok) ==
    LET writes == Len(chunk.data) > 0
        fails == writes /\ ~ok
        wr == IF writes THEN WriterWrite(w[f], chunk.data) ELSE w[f]
        stop == fails \/ chunk.isLast
    IN /\ w' = [w EXCEPT ![f] = IF stop THEN WriterClose(wr) ELSE wr]
       /\ upc' = [upc EXCEPT ![f] = IF stop THEN "done" ELSE "loop"]
       /\ uerr' = [uerr EXCEPT ![f] = IF fails THEN WriteErr(f) ELSE Nil]
       /\ pairErr' = [pairErr EXCEPT ![f] = IF fails THEN FirstErr(@, WriteErr(f)) ELSE @]
       /\ ctxCancelled' = (ctxCancelled \/ fails)

\* for chunk := range chunkChannel: a chunk is received
CoUpRecv(f) ==
    /\ impl = "coord"
    /\ upc[f] = "loop"
    /\ ch[f] # <<>>
    /\ ch' = [ch EXCEPT ![f] = Tail(@)]
    /\ \E ok \in BOOLEAN : CoWriterTake(f, Head(ch[f]), ok)
    /\ UNCHANGED <<fixedVars, genVars, cmdVars, bldVars, pwVars, runVars, task, fileErr, doneSeq, ppc, perr,
                   rowOffset, chClosed, sent, pqVars, filesCount>>

\* for chunk := range chunkChannel: the channel is closed and drained
CoUpClosed(f) ==
    /\ impl = "coord"
    /\ upc[f] = "loop"
    /\ ch[f] = <<>>
    /\ chClosed[f]
    /\ w' = [w EXCEPT ![f] = WriterClose(@)]
    /\ upc' = [upc EXCEPT ![f] = "done"]
    /\ UNCHANGED <<fixedVars, genVars, cmdVars, bldVars, pwVars, runVars, ctxCancelled, task, fileErr, doneSeq, ppc, perr, uerr,
                   pairErr, rowOffset, ch, chClosed, sent, pqVars, filesCount>>

\* what the task returns after writerGroup.Wait: the writer's error first,
\* then the producer's
CoTaskErr(we, pe) == IF we # Nil THEN we ELSE pe

\* writerGroup.Wait returned: the task returns its error, or counts the file
\* (writtenFiles.Add(1)) and returns nil
CoWait(f) ==
    /\ impl = "coord"
    /\ task[f] = "run"
    /\ ppc[f] = "done"
    /\ upc[f] = "done"
    /\ filesCount' = CountAfterPair(filesCount, CoTaskErr(uerr[f], perr[f]))
    /\ fileErr' = [fileErr EXCEPT ![f] = CoTaskErr(uerr[f], perr[f])]
    /\ doneSeq' = Append(doneSeq, f)
    /\ runErr' = FirstErr(runErr, CoTaskErr(uerr[f], perr[f]))
    /\ task' = [task EXCEPT ![f] = "done"]
    /\ UNCHANGED <<fixedVars, genVars, cmdVars, bldVars, pwVars, nextFile, runpc, runResult, ctxCancelled, ppc, upc,
                   perr, uerr, pairErr, rowOffset, ch, chClosed, w, sent, pqVars>>

\* eg.Wait returns the first recorded error; the deferred cancel() runs
CoReturn ==
    /\ impl = "coord"
    /\ runpc = "wait"
    /\ \A f \in Files : task[f] = "done"
    /\ runResult' = runErr
    /\ runpc' = "returned"
    /\ ctxCancelled' = TRUE
    /\ UNCHANGED <<fixedVars, genVars, cmdVars, bldVars, pwVars, nextFile, runErr, task, fileErr, doneSeq, ppc,
                   upc, perr, uerr, pairErr, rowOffset, ch, chClosed, w, sent,
                   pqVars, filesCount>>

NextCoord ==
    \/ \E f \in Files : CoGo(f)
    \/ \E f \in Files : CoCsvSend(f)
    \/ \E f \in Files : CoCsvCancelled(f)
    \/ \E f \in Files : CoCsvReturn(f)
    \/ \E f \in Files : CoUpCreate(f)
    \/ \E f \in Files : CoUpRecv(f)
    \/ \E f \in Files : CoUpClosed(f)
    \/ \E f \in Files : CoWait(f)
    \/ CoReturn

(* ---------------- the create command: validation, then the run ---------------- *)
\* config.Validate: the messages it collects
ValidateErrs ==
    (IF otherOk THEN {} ELSE {"other"})
    \cup (IF cfgEnd <= cfgStart
          THEN {"common.end_fileno must be greater than common.start_fileno"} ELSE {})
    \cup (IF rows <= 0 THEN {"common.rows must be greater than 0"} ELSE {})
    \cup (IF format = "parquet"
          THEN IF rowGroups <= 0
               THEN {"parquet.row_groups must be greater than 0"}
               ELSE IF rows > 0 /\ rows % rowGroups # 0
               THEN {"parquet.row_groups must divide common.rows"}
               ELSE {}
          ELSE {})

\* generateParquetCommon's own check: numRows%rowGroups != 0 is an error
ParquetCommonErr == rows % rowGroups # 0

\* ParquetWriter.Init: panics when rowsPerRowGroup%BatchSize != 0
ParquetInitPanics == (rows \div rowGroups) % BatchSize # 0

InitCreate ==
    /\ impl = "create"
    /\ streaming = FALSE
    /\ threads = 1
    /\ format \in {"csv", "parquet"}
    /\ rows \in (0..MaxRows) \cup {BatchSize * n + d : n \in 1..MaxBatches, d \in {0, 1}}
    /\ chunkRows = 1
    /\ encLens = [k \in 0..FooterStep |-> 1]
    /\ InitFiles /\ InitNoPw
    /\ InitNoGen
    /\ cfgStart = StartFileNo
    /\ cfgEnd \in StartFileNo..EndFileNo
    /\ rowGroups \in 0..MaxRowGroups
    /\ otherOk \in BOOLEAN
    /\ cmdpc = "validate"
    /\ cmdErr = Nil
    /\ curFile = cfgStart
    /\ created = {}
    /\ InitNoBuild

\* the command validates the loaded configuration before any work starts;
\* an invalid configuration is reported as an error
CmdValidate ==
    /\ impl = "create"
    /\ cmdpc = "validate"
    /\ IF ValidateErrs = {}
       THEN /\ cmdpc' = "open"
            /\ cmdErr' = Nil
       ELSE /\ cmdpc' = "rejected"
            /\ cmdErr' = <<"invalid config", ValidateErrs>>
    /\ UNCHANGED <<fixedVars, genVars, bldVars, pwVars, runVars, ctxCancelled, task, fileErr, doneSeq,
                   ppc, upc, perr, uerr, pairErr, rowOffset, ch, chClosed, w, sent,
                   pqVars, filesCount, cfgStart, cfgEnd, rowGroups, otherOk,
                   curFile, created>>

\* Run's loop reaches a file and generateDirect opens its writer: the object
\* is created in the store, or Create fails and the run returns the error
CmdOpen ==
    /\ impl = "create"
    /\ cmdpc = "open"
    /\ curFile < cfgEnd
    /\ \E ok \in BOOLEAN :
         IF ok
         THEN /\ created' = created \cup {curFile}
              /\ cmdpc' = "gen"
              /\ cmdErr' = cmdErr
         ELSE /\ created' = created
              /\ cmdpc' = "done"
              /\ cmdErr' = CreateErr(curFile)
    /\ UNCHANGED <<fixedVars, genVars, bldVars, pwVars, runVars, ctxCancelled, task, fileErr, doneSeq,
                   ppc, upc, perr, uerr, pairErr, rowOffset, ch, chClosed, w, sent,
                   pqVars, filesCount, cfgStart, cfgEnd, rowGroups, otherOk, curFile>>

\* GenerateFile on the opened writer: a CSV file is written; a Parquet file
\* goes through generateParquetCommon, which returns an error when row_groups
\* does not divide rows, and through ParquetWriter.Init, which panics when the
\* rows of a row group are not a multiple of BatchSize
CmdGenerate ==
    /\ impl = "create"
    /\ cmdpc = "gen"
    /\ IF format = "parquet" /\ ParquetCommonErr
       THEN /\ cmdpc' = "done"
            /\ cmdErr' = GenErr(curFile)
            /\ curFile' = curFile
       ELSE IF format = "parquet" /\ ParquetInitPanics
       THEN /\ cmdpc' = "panic"
            /\ cmdErr' = cmdErr
            /\ curFile' = curFile
       ELSE /\ cmdpc' = "open"
            /\ cmdErr' = cmdErr
            /\ curFile' = curFile + 1
    /\ UNCHANGED <<fixedVars, genVars, bldVars, pwVars, runVars, ctxCancelled, task, fileErr, doneSeq,
                   ppc, upc, perr, uerr, pairErr, rowOffset, ch, chClosed, w, sent,
                   pqVars, filesCount, cfgStart, cfgEnd, rowGroups, otherOk, created>>

\* the loop is over, eg.Wait returns nil and Run returns nil
CmdFinish ==
    /\ impl = "create"
    /\ cmdpc = "open"
    /\ curFile >= cfgEnd
    /\ cmdpc' = "done"
    /\ UNCHANGED <<fixedVars, genVars, bldVars, pwVars, runVars, ctxCancelled, task, fileErr, doneSeq,
                   ppc, upc, perr, uerr, pairErr, rowOffset, ch, chClosed, w, sent,
                   pqVars, filesCount, cfgStart, cfgEnd, rowGroups, otherOk, cmdErr,
                   curFile, created>>

NextCreate == CmdValidate \/ CmdOpen \/ CmdGenerate \/ CmdFinish

(* ---------------- schema build: column comments ---------------- *)
\* a comment is a sequence of tokens: the characters the scanner looks at
\* (quote, brackets, comma), '=', space, and words made of other characters
Quote == "\""

NumWords == {"-1", "1", "2", "3", "5", "200"}

\* the integer a numeric word denotes
WordInt(wd) ==
    CASE wd = "-1" -> 0 - 1
      [] wd = "1" -> 1
      [] wd = "2" -> 2
      [] wd = "3" -> 3
      [] wd = "5" -> 5
      [] wd = "200" -> 200

\* strings.ReplaceAll(comment, " ", "")
RECURSIVE StripSpaces(_)
StripSpaces(c) ==
    IF c = <<>> THEN <<>>
    ELSE IF Head(c) = " " THEN StripSpaces(Tail(c))
    ELSE <<Head(c)>> \o StripSpaces(Tail(c))

\* the loop of splitCommentOpts from position i on
RECURSIVE SplitScan(_, _, _, _, _, _)
SplitScan(c, i, start, depth, inQuotes, opts) ==
    IF i > Len(c)
    THEN IF inQuotes \/ depth # 0
         THEN [err |-> TRUE, opts |-> <<>>]
         ELSE [err |-> FALSE,
               opts |-> IF start <= Len(c)
                        THEN Append(opts, SubSeq(c, start, Len(c)))
                        ELSE opts]
    ELSE IF c[i] = Quote
    THEN SplitScan(c, i + 1, start, depth, ~inQuotes, opts)
    ELSE IF c[i] = "["
    THEN SplitScan(c, i + 1, start, IF inQuotes THEN depth ELSE depth + 1, inQuotes, opts)
    ELSE IF c[i] = "]"
    THEN IF ~inQuotes /\ depth - 1 < 0
         THEN [err |-> TRUE, opts |-> <<>>]
         ELSE SplitScan(c, i + 1, start, IF inQuotes THEN depth ELSE depth - 1,
                        inQuotes, opts)
    ELSE IF c[i] = "," /\ ~inQuotes /\ depth = 0
    THEN SplitScan(c, i + 1, i + 1, depth, inQuotes,
                   IF start < i THEN Append(opts, SubSeq(c, start, i - 1)) ELSE opts)
    ELSE SplitScan(c, i + 1, start, depth, inQuotes, opts)

\* splitCommentOpts
SplitCommentOpts(c) == SplitScan(c, 1, 1, 0, FALSE, <<>>)

\* strings.SplitN(opt, "=", 2): the position of the first '=', 0 if none
FirstEq(opt) ==
    IF \E i \in 1..Len(opt) : opt[i] = "="
    THEN CHOOSE i \in 1..Len(opt) : opt[i] = "=" /\ \A j \in 1..(i - 1) : opt[j] # "="
    ELSE 0

OptKey(opt) == SubSeq(opt, 1, FirstEq(opt) - 1)

OptValue(opt) == SubSeq(opt, FirstEq(opt) + 1, Len(opt))

\* strconv.Atoi with its error dropped: 0 when the text is not a number
Atoi(v) == IF Len(v) = 1 /\ v[1] \in NumWords THEN WordInt(v[1]) ELSE 0

AtoiFails(v) == ~(Len(v) = 1 /\ v[1] \in NumWords)

\* mathutil.Clamp
Clamp(n, lo, hi) == IF n < lo THEN lo ELSE IF n > hi THEN hi ELSE n

\* the elements of a JSON array text: split at the commas outside quotes
RECURSIVE JsonSplit(_, _, _, _, _)
JsonSplit(v, i, start, inQuotes, out) ==
    IF i > Len(v) THEN Append(out, SubSeq(v, start, Len(v)))
    ELSE IF v[i] = Quote THEN JsonSplit(v, i + 1, start, ~inQuotes, out)
    ELSE IF v[i] = "," /\ ~inQuotes
    THEN JsonSplit(v, i + 1, i + 1, inQuotes, Append(out, SubSeq(v, start, i - 1)))
    ELSE JsonSplit(v, i + 1, start, inQuotes, out)

IsJsonArray(v) == Len(v) >= 2 /\ v[1] = "[" /\ v[Len(v)] = "]"

JsonElems(v) ==
    IF Len(v) = 2 THEN <<>> ELSE JsonSplit(SubSeq(v, 2, Len(v) - 1), 1, 1, FALSE, <<>>)

IsJsonString(e) ==
    /\ Len(e) >= 2 /\ e[1] = Quote /\ e[Len(e)] = Quote
    /\ \A k \in 2..(Len(e) - 1) : e[k] # Quote

IsJsonInt(e) == Len(e) = 1 /\ e[1] \in NumWords

\* json.Unmarshal([]byte(v), &stringValues) succeeds
UnmarshalsAsStrings(v) ==
    IsJsonArray(v) /\ \A k \in 1..Len(JsonElems(v)) : IsJsonString(JsonElems(v)[k])

\* json.Unmarshal([]byte(v), &intValues) succeeds
UnmarshalsAsInts(v) ==
    IsJsonArray(v) /\ \A k \in 1..Len(JsonElems(v)) : IsJsonInt(JsonElems(v)[k])

\* the decoded strings: the characters between the quotes of each element
StringValues(v) ==
    [k \in 1..Len(JsonElems(v)) |->
        SubSeq(JsonElems(v)[k], 2, Len(JsonElems(v)[k]) - 1)]

IntValues(v) == [k \in 1..Len(JsonElems(v)) |-> WordInt(JsonElems(v)[k][1])]

\* an error of schema build: its message, the column name and the text it
\* quotes ("" when the message has none)
BuildError(msg, column, text) == [msg |-> msg, column |-> column, text |-> text]

\* one iteration of parseComment's loop over the options: the spec after the
\* option, or the error returned
ApplyOpt(c, opt) ==
    IF FirstEq(opt) = 0
    THEN [err |-> BuildError("malformed comment option", "", opt), spec |-> c]
    ELSE LET k == OptKey(opt)
             v == OptValue(opt)
         IN CASE k = <<"null_percent">> ->
                   [err |-> Nil, spec |-> [c EXCEPT !.nullPercent = Atoi(v)]]
              [] k = <<"max_length">> ->
                   [err |-> Nil, spec |-> [c EXCEPT !.typeLen = Atoi(v)]]
              [] k = <<"min_length">> ->
                   [err |-> Nil, spec |-> [c EXCEPT !.minLen = Atoi(v)]]
              [] k = <<"mean">> ->
                   [err |-> Nil, spec |-> [c EXCEPT !.mean = Atoi(v)]]
              [] k = <<"stddev">> ->
                   [err |-> Nil, spec |-> [c EXCEPT !.stdDev = Atoi(v)]]
              [] k = <<"compress">> ->
                   IF AtoiFails(v)
                   THEN [err |-> BuildError("invalid compress", c.name, v), spec |-> c]
                   ELSE [err |-> Nil,
                         spec |-> [c EXCEPT !.compress = Clamp(Atoi(v), 1, 100)]]
              [] k = <<"set">> ->
                   IF UnmarshalsAsStrings(v)
                   THEN [err |-> Nil, spec |-> [c EXCEPT !.valueSet = StringValues(v)]]
                   ELSE IF UnmarshalsAsInts(v)
                   THEN [err |-> Nil, spec |-> [c EXCEPT !.intSet = IntValues(v)]]
                   ELSE [err |-> BuildError("invalid set", c.name, v), spec |-> c]
              [] k = <<"order">> ->
                   IF v \in {<<"total_order">>, <<"partial_order">>, <<"random_order">>}
                   THEN [err |-> Nil, spec |-> [c EXCEPT !.order = ParseOrder(v[1])]]
                   ELSE [err |-> BuildError("invalid order", c.name, v), spec |-> c]
              [] OTHER -> [err |-> Nil, spec |-> c]

\* parseComment's loop from option i on
RECURSIVE ApplyOpts(_, _, _)
ApplyOpts(c, opts, i) ==
    IF i > Len(opts) THEN [err |-> Nil, spec |-> c]
    ELSE IF ApplyOpt(c, opts[i]).err # Nil THEN ApplyOpt(c, opts[i])
    ELSE ApplyOpts(ApplyOpt(c, opts[i]).spec, opts, i + 1)

\* the options parseComment hands to its loop: the comment without spaces,
\* split by splitCommentOpts
CommentOpts(comment) == SplitCommentOpts(StripSpaces(comment))

\* parseComment
ParseComment(c, comment) ==
    LET c0 == [c EXCEPT !.order = "NumericRandomOrder"]
    IN IF StripSpaces(comment) = <<>> THEN [err |-> Nil, spec |-> c0]
       ELSE IF CommentOpts(comment).err
       THEN [err |-> BuildError("malformed comment", "", StripSpaces(comment)),
             spec |-> c0]
       ELSE ApplyOpts(c0, CommentOpts(comment).opts, 1)

(* ---------------- schema build: decimal columns ---------------- *)
\* big.Int values: little-endian words of WordBits bits, no leading zero
\* word (the width is chosen so that a word times ten fits a machine integer)
WordBits == 15

WordBase == Pow2(WordBits)

RECURSIVE MulFrom(_, _, _, _, _)
MulFrom(x, m, i, carry, out) ==
    IF i > Len(x) THEN (IF carry = 0 THEN out ELSE Append(out, carry))
    ELSE MulFrom(x, m, i + 1, (x[i] * m + carry) \div WordBase,
                 Append(out, (x[i] * m + carry) % WordBase))

BigMulSmall(x, m) == MulFrom(x, m, 1, 0, <<>>)

\* big.Int.Exp(b, e, nil) for a small base
RECURSIVE BigExpFrom(_, _, _)
BigExpFrom(acc, b, e) == IF e = 0 THEN acc ELSE BigExpFrom(BigMulSmall(acc, b), b, e - 1)

BigExp(b, e) == BigExpFrom(<<1>>, b, e)

\* big.Int.Sub(x, 1) for x > 0
BigSubOne(x) ==
    LET i == CHOOSE k \in 1..Len(x) : x[k] # 0 /\ \A j \in 1..(k - 1) : x[j] = 0
        y == [k \in 1..Len(x) |->
                IF k < i THEN WordBase - 1 ELSE IF k = i THEN x[k] - 1 ELSE x[k]]
    IN IF y[Len(y)] = 0 THEN SubSeq(y, 1, Len(y) - 1) ELSE y

RECURSIVE WordBitLen(_, _)
WordBitLen(v, n) == IF v = 0 THEN n ELSE WordBitLen(v \div 2, n + 1)

\* big.Int.BitLen
BigBitLen(x) ==
    IF x = <<>> THEN 0 ELSE (Len(x) - 1) * WordBits + WordBitLen(x[Len(x)], 0)

\* decimalMaxDigitsBits
DecimalMaxDigitsBits(precision) ==
    IF precision <= 0 THEN 0 ELSE BigBitLen(BigSubOne(BigExp(10, precision)))

\* deduceTypeForDecimal: the physical type and its byte length
DeduceTypeForDecimal_NoSign(precision) ==
    IF precision <= 9 THEN [ptype |-> "INT32", typeLen |-> 0]
    ELSE IF precision <= 18 THEN [ptype |-> "INT64", typeLen |-> 0]
    ELSE [ptype |-> "FIXED_LEN_BYTE_ARRAY",
          typeLen |-> (DecimalMaxDigitsBits(precision) + 7) \div 8]

DeduceTypeForDecimal(precision) ==
    IF precision <= 9 THEN [ptype |-> "INT32", typeLen |-> 0]
    ELSE IF precision <= 18 THEN [ptype |-> "INT64", typeLen |-> 0]
    ELSE [ptype |-> "FIXED_LEN_BYTE_ARRAY",
          typeLen |-> (DecimalMaxDigitsBits(precision) + 1 + 7) \div 8]

(* ---------------- schema build: GetSpecFromSQL ---------------- *)
\* DefaultSpecs[col.GetType()] for the column types of the model
DefaultSpecs(t) ==
    [name |-> "", sqlType |-> t,
     ptype |-> CASE t = "varchar" -> "BYTE_ARRAY"
                 [] t = "decimal" -> "INT64"
                 [] t = "int" -> "INT32",
     typeLen |-> CASE t = "varchar" -> 64 [] t = "decimal" -> 0 [] t = "int" -> 32,
     minLen |-> 0, precision |-> 0, scale |-> 0, nullPercent |-> 0,
     valueSet |-> <<>>, intSet |-> <<>>, isUnique |-> FALSE,
     order |-> "NumericTotalOrder", mean |-> 0, stdDev |-> 0, compress |-> 0]

\* types.IsTypeNumeric
IsTypeNumeric(t) == t \in {"int", "decimal"}

\* the body of GetSpecFromSQL's loop for one column of the table: the spec
\* it appends, or the error the build returns
ColumnBuild(cd) ==
    LET s0 == [DefaultSpecs(cd.type) EXCEPT
                  !.name = cd.name, !.order = "NumericRandomOrder", !.compress = 100]
        s1 == IF ~IsTypeNumeric(cd.type) /\ cd.flen > 0
              THEN [s0 EXCEPT !.typeLen = Min(cd.flen, 64)] ELSE s0
        s2 == IF cd.type = "decimal"
              THEN [s1 EXCEPT !.precision = cd.flen, !.scale = cd.decimal,
                              !.ptype = DeduceTypeForDecimal(cd.flen).ptype,
                              !.typeLen = DeduceTypeForDecimal(cd.flen).typeLen]
              ELSE s1
        pc == IF cd.comment # <<>> THEN ParseComment(s2, cd.comment)
              ELSE [err |-> Nil, spec |-> s2]
        s3 == pc.spec
        \* int(float64(TypeLen) * 0.75): truncation toward zero
        tq == IF s3.typeLen >= 0 THEN (3 * s3.typeLen) \div 4
              ELSE 0 - ((3 * (0 - s3.typeLen)) \div 4)
        s4 == IF s3.minLen = 0 THEN [s3 EXCEPT !.minLen = tq] ELSE s3
    IN IF cd.type = "decimal" /\ cd.flen = 0
       THEN [err |-> BuildError("unsupported decimal precision=0", cd.name, <<>>),
             spec |-> s0]
       ELSE IF cd.type = "decimal" /\ (cd.decimal < 0 \/ cd.decimal > cd.flen)
       THEN [err |-> BuildError("invalid decimal scale", cd.name, <<>>), spec |-> s0]
       ELSE IF pc.err # Nil THEN [err |-> pc.err, spec |-> s0]
       ELSE [err |-> Nil, spec |-> [s4 EXCEPT !.minLen = Min(s4.typeLen, s4.minLen)]]

\* the comments of up to n options, joined by commas; OptPool is the option
\* texts a column comment of the model is put together from
RECURSIVE Comments(_)
Comments(n) ==
    LET OptPool ==
            { <<"set", "=", "[", Quote, "a", Quote, ",", Quote, "b", " ", "c", Quote, "]">>,
              <<"set", "=", "[", Quote, "a", ",", "b", Quote, "]">>,
              <<"set", "=", "[", Quote, "a", "]", Quote, "]">>,
              <<"set", "=", "[", "1", ",", "2", "]">>,
              <<"set", "=", "[", "]">>,
              <<"set", "=", "[", "x", "]">>,
              <<"set", "=", "[", "1">>,
              <<"set", "=", "[", Quote, "a", "]">>,
              <<"]">>,
              <<"min_length", "=", "5">>,
              <<"min_length", "=", "-1">>,
              <<"max_length", "=", "3">>,
              <<"zzz", "=", "1">>,
              <<"zzz">>,
              <<" ">> }
    IN IF n = 0 THEN {<<>>}
       ELSE Comments(n - 1) \cup
            {IF c = <<>> THEN o ELSE c \o <<",">> \o o :
                c \in Comments(n - 1), o \in OptPool}

\* the state when GetSpecFromSQL has parsed the table and enters its loop;
\* buildpc is the index of the column the loop is at, 0 once the build
\* returned. The table has a varchar column with a comment or a decimal
\* column, alone or after an int column
InitBuild ==
    /\ impl = "build"
    /\ streaming = FALSE
    /\ threads = 1
    /\ format = "csv"
    /\ rows = 1
    /\ chunkRows = 1
    /\ encLens = [k \in 0..FooterStep |-> 1]
    /\ InitFiles /\ InitNoPw /\ InitNoGen /\ InitNoCmd
    /\ LET VarcharCols ==
               {[name |-> "v", type |-> "varchar", flen |-> fl, decimal |-> 0,
                 comment |-> c] : fl \in {4, 80}, c \in Comments(MaxOpts)}
           DecimalCols ==
               UNION {{[name |-> "d", type |-> "decimal", flen |-> pr, decimal |-> sc,
                        comment |-> <<>>] : sc \in {0 - 1, 0, pr, pr + 1}} :
                         pr \in 0..MaxPrecision}
           IdCol == [name |-> "id", type |-> "int", flen |-> 11, decimal |-> 0,
                     comment |-> <<>>]
       IN \E cd \in VarcharCols \cup DecimalCols, u \in BOOLEAN :
             \E cols \in {<<cd>>, <<IdCol, cd>>} :
                tbl = [cols |-> cols, unique |-> IF u THEN {Len(cols)} ELSE {}]
    /\ buildpc = 1
    /\ buildSpecs = <<>>
    /\ buildErr = Nil
    /\ buildOpts = <<>>

\* the options the loop of parseComment goes through for a column: none when
\* the comment is empty, blank or malformed
HandledOpts(cd) ==
    IF CommentOpts(cd.comment).err THEN <<>> ELSE CommentOpts(cd.comment).opts

\* one iteration of the loop over tbInfo.Columns
BuildColumn ==
    /\ impl = "build"
    /\ buildpc \in 1..Len(tbl.cols)
    /\ buildOpts' = Append(buildOpts, HandledOpts(tbl.cols[buildpc]))
    /\ LET r == ColumnBuild(tbl.cols[buildpc])
       IN IF r.err # Nil
          THEN /\ buildErr' = r.err
               /\ buildSpecs' = <<>>
               /\ buildpc' = 0
          ELSE /\ buildSpecs' = Append(buildSpecs, r.spec)
               /\ buildpc' = buildpc + 1
               /\ UNCHANGED buildErr
    /\ UNCHANGED <<fixedVars, genVars, cmdVars, pwVars, runVars, ctxCancelled, task, fileErr,
                   doneSeq, ppc, upc, perr, uerr, pairErr, rowOffset, ch, chClosed,
                   w, sent, pqVars, filesCount, tbl>>

\* the loops over the primary key and the unique indices, and the return
BuildIndices ==
    /\ impl = "build"
    /\ buildpc = Len(tbl.cols) + 1
    /\ buildSpecs' = [k \in 1..Len(buildSpecs) |->
                        IF k \in tbl.unique
                        THEN [buildSpecs[k] EXCEPT !.isUnique = TRUE]
                        ELSE buildSpecs[k]]
    /\ buildpc' = 0
    /\ UNCHANGED <<fixedVars, genVars, cmdVars, pwVars, runVars, ctxCancelled, task, fileErr,
                   doneSeq, ppc, upc, perr, uerr, pairErr, rowOffset, ch, chClosed,
                   w, sent, pqVars, filesCount, tbl, buildErr, buildOpts>>

NextBuild == BuildColumn \/ BuildIndices

(* ---------------- column generation: strings ---------------- *)
\* the SQL types generate sends to generateString
StringTypes == {"char", "varchar", "varbinary", "blob", "text", "tinyblob"}

\* validChar, cut down to its first two characters
ValidChar == <<"0", "1">>

\* a string value a generator returns: its characters, or, for the text of a
\* UUID, the number of the uuid.New() call that made it
StrValue(chars) == [uuid |-> 0, s |-> chars]

UuidValue(n) == [uuid |-> n, s |-> <<>>]

\* rng.Intn(upper-lower+1) + lower with the draw r
StrLen(c, r) == (r % (c.typeLen - c.minLen + 1)) + c.minLen

\* generateStringWithCompress: length*compress/100 random characters, then 'a'
GenerateStringWithCompress(length, compress, r) ==
    [k \in 1..length |->
        IF k <= (length * compress) \div 100
        THEN ValidChar[((r + k) % Len(ValidChar)) + 1]
        ELSE "a"]

\* generateString with the draw r; fresh numbers the UUID it may make
GenerateString_UniqueFirst(c, r, fresh) ==
    IF c.isUnique THEN UuidValue(fresh)
    ELSE IF Len(c.valueSet) > 0
    THEN StrValue(c.valueSet[(r % Len(c.valueSet)) + 1])
    ELSE StrValue(GenerateStringWithCompress(StrLen(c, r), c.compress, r))

GenerateString(c, r, fresh) ==
    IF Len(c.valueSet) > 0
    THEN StrValue(c.valueSet[(r % Len(c.valueSet)) + 1])
    ELSE IF c.isUnique THEN UuidValue(fresh)
    ELSE StrValue(GenerateStringWithCompress(StrLen(c, r), c.compress, r))

\* generateStringParquet over a batch of n slots with null_percent = 0: the
\* draw of slot i is r + i; one length is drawn for the whole batch
GenerateStringParquet(c, n, r) ==
    IF Len(c.valueSet) > 0
    THEN [i \in 1..n |-> StrValue(c.valueSet[((r + i - 1) % Len(c.valueSet)) + 1])]
    ELSE [i \in 1..n |->
            StrValue(GenerateStringWithCompress(StrLen(c, r), c.compress, r + i - 1))]

\* generate and GenerateSingleField: the text of one CSV field and the column
\* spec the call leaves
GenerateSingleField(c, rowID, r, fresh) ==
    IF c.sqlType \in StringTypes
    THEN [val |-> GenerateString(c, r, fresh), col |-> c]
    ELSE [val |-> FormatInt(GenerateInt(c, rowID, r).val),
          col |-> GenerateInt(c, rowID, r).col]

\* FillParquetBatch: the values of one batch and the column spec it leaves
FillParquetBatch(c, rowID, n, r) ==
    IF c.sqlType \in {"varchar", "char", "blob", "tinyblob"}
    THEN [vals |-> GenerateStringParquet(c, n, r), col |-> c]
    ELSE GenerateInt32Parquet(c, rowID, n, r)

(* ---------------- column generation: the two paths ---------------- *)
\* one column built from a schema, one file of CSV or Parquet rows; the
\* string columns are the specs schema build gives a VARCHAR(4) column with
\* one of four comments
InitGen ==
    /\ impl = "gen"
    /\ streaming = FALSE
    /\ threads = 1
    /\ format \in {"csv", "parquet"}
    /\ rows \in IF format = "csv" THEN 1..MaxRows
                ELSE {BatchSize * n : n \in 1..MaxBatches}
    /\ chunkRows = 1
    /\ encLens = [k \in 0..FooterStep |-> 1]
    /\ InitFiles /\ InitNoPw
    /\ col \in {BuildSpec(t, opt, set, sd, uniq) :
                  t \in IntTypes,
                  \* the order option of the comment; "" when it has none
                  opt \in {"", "total_order", "partial_order", "random_order"},
                  set \in {<<>>, <<3, 8>>},
                  sd \in {0, 1}, uniq \in BOOLEAN}
               \cup
               {[ColumnBuild([name |-> "v", type |-> "varchar", flen |-> 4,
                              decimal |-> 0, comment |-> c]).spec
                    EXCEPT !.isUnique = u] :
                  c \in { <<>>,
                          <<"set", "=", "[", Quote, "a", Quote, ",", Quote, "b", " ", "c", Quote, "]">>,
                          <<"compress", "=", "1">>,
                          <<"max_length", "=", "3", ",", "min_length", "=", "5">> },
                  u \in BOOLEAN}
    /\ genFile \in Files
    /\ genRow = 0
    /\ genOut = <<>>
    /\ InitNoCmd
    /\ InitNoBuild

\* the CSV path, one row: generateCSVRow -> GenerateSingleField(rowID) with
\* rowID = fileNo*rows + rowOffset + i; null_percent = 0, so generate calls
\* generateInt or generateString
GenCsvField ==
    /\ impl = "gen"
    /\ format = "csv"
    /\ genRow < rows
    /\ \E r \in 0..RngMax :
         LET g == GenerateSingleField(col, genFile * rows + genRow, r, Len(genOut) + 1)
         IN /\ genOut' = Append(genOut, g.val)
            /\ col' = g.col
    /\ genRow' = genRow + 1
    /\ UNCHANGED <<fixedVars, cmdVars, bldVars, pwVars, runVars, ctxCancelled, task, fileErr, doneSeq, ppc, upc,
                   perr, uerr, pairErr, rowOffset, ch, chClosed, w, sent, pqVars,
                   filesCount, genFile>>

\* the Parquet path, one batch: FillParquetBatch(rowIDStart) with
\* rowIDStart = fileNo*rows + rows already filled
GenPqBatch ==
    /\ impl = "gen"
    /\ format = "parquet"
    /\ genRow < rows
    /\ \E r \in 0..RngMax :
         LET b == FillParquetBatch(col, genFile * rows + genRow, BatchSize, r)
         IN /\ genOut' = genOut \o b.vals
            /\ col' = b.col
    /\ genRow' = genRow + BatchSize
    /\ UNCHANGED <<fixedVars, cmdVars, bldVars, pwVars, runVars, ctxCancelled, task, fileErr, doneSeq, ppc, upc,
                   perr, uerr, pairErr, rowOffset, ch, chClosed, w, sent, pqVars,
                   filesCount, genFile>>

NextGen == GenCsvField \/ GenPqBatch

(* ---------------- generateParquetCommon and ParquetWriter ---------------- *)
\* the variables of a run; the Parquet file writer leaves them alone
orchVars == <<runVars, ctxCancelled, task, fileErr, doneSeq, ppc, upc, perr, uerr,
              pairErr, rowOffset, ch, chClosed, w, sent, pqVars, filesCount>>

\* pw.rowsPerRowGroup = rows / rowGroups
RowsPerRowGroup == rows \div rowGroups

\* rounds := pw.rowsPerRowGroup / len(defLevels), defLevels has BatchSize slots
Rounds == RowsPerRowGroup \div BatchSize

\* a call into the file writer may flush encoded bytes to the sink
SinkWrites(wrote) == IF wrote THEN <<"SinkWrite">> ELSE <<>>

\* one file of a Parquet run; the row counts are multiples of half a batch,
\* so that rows fit and do not fit the row groups and the batch size
InitPw ==
    /\ impl = "pw"
    /\ streaming = FALSE
    /\ threads = 1
    /\ format = "parquet"
    /\ rows \in {(BatchSize \div 2) * m : m \in 1..(2 * MaxBatches * MaxRowGroups)}
    /\ chunkRows = 1
    /\ encLens = [k \in 0..FooterStep |-> 1]
    /\ InitFiles /\ InitNoGen /\ InitNoBuild
    /\ cfgStart = StartFileNo
    /\ cfgEnd = EndFileNo
    /\ rowGroups \in 1..MaxRowGroups
    /\ otherOk = TRUE
    /\ cmdpc = "gen"
    /\ cmdErr = Nil
    /\ curFile \in Files
    /\ created = {}
    /\ numCols \in 1..MaxCols
    /\ pwpc = "start"
    /\ pwErr = Nil
    /\ pwRgs = 0
    /\ currCol = 0
    /\ pwRound = 0
    /\ startRowID = 0
    /\ rowIDStart = 0
    /\ fillCalls = <<>>
    /\ pwLog = <<>>

\* generateParquetCommon up to the call of pw.Write: the divisibility check,
\* the codec lookup and pw.Init, which panics unless the rows of a row group
\* are a multiple of BatchSize and which opens the file writer on the sink
PwInit ==
    /\ impl = "pw"
    /\ pwpc = "start"
    /\ \E codecOk, wrote \in BOOLEAN :
         IF ParquetCommonErr
         THEN /\ pwpc' = "done"
              /\ pwErr' = <<"numRows is not divisible by numRowGroups">>
              /\ UNCHANGED <<startRowID, pwLog>>
         ELSE IF ~codecOk
         THEN /\ pwpc' = "done"
              /\ pwErr' = <<"unsupported parquet compression">>
              /\ UNCHANGED <<startRowID, pwLog>>
         ELSE IF ParquetInitPanics
         THEN /\ pwpc' = "panic"
              /\ UNCHANGED <<pwErr, startRowID, pwLog>>
         ELSE /\ pwpc' = "rg"
              /\ startRowID' = rows * curFile
              /\ pwLog' = pwLog \o SinkWrites(wrote)
              /\ pwErr' = pwErr
    /\ UNCHANGED <<fixedVars, genVars, cmdVars, bldVars, orchVars, numCols, pwRgs,
                   currCol, pwRound, rowIDStart, fillCalls>>

\* ParquetWriter.Write: rgw := pw.w.AppendRowGroup()
PwAppendRowGroup ==
    /\ impl = "pw"
    /\ pwpc = "rg"
    /\ pwRgs < rowGroups
    /\ pwLog' = pwLog \o <<"AppendRowGroup">>
    /\ currCol' = 0
    /\ pwpc' = "col"
    /\ UNCHANGED <<fixedVars, genVars, cmdVars, bldVars, orchVars, numCols, pwErr,
                   pwRgs, pwRound, startRowID, rowIDStart, fillCalls>>

\* writeNextColumn: cw, err := rgw.NextColumn(); an error is returned by Write
\* and by generateParquetCommon, pw.Close is not reached
PwNextColumn ==
    /\ impl = "pw"
    /\ pwpc = "col"
    /\ currCol < numCols
    /\ \E ok \in BOOLEAN :
         IF ok
         THEN /\ pwLog' = pwLog \o <<"NextColumn">>
              /\ rowIDStart' = startRowID
              /\ pwRound' = 0
              /\ pwpc' = "batch"
              /\ pwErr' = pwErr
         ELSE /\ pwpc' = "done"
              /\ pwErr' = <<"column", currCol>>
              /\ UNCHANGED <<pwLog, rowIDStart, pwRound>>
    /\ UNCHANGED <<fixedVars, genVars, cmdVars, bldVars, orchVars, numCols, pwRgs,
                   currCol, startRowID, fillCalls>>

\* mutant: the column writer is left open when writeNextColumn returns
ColumnReturn_NoClose(wrote) == SinkWrites(wrote)

\* defer cw.Close(): runs on every return of writeNextColumn after NextColumn
ColumnReturn(wrote) == SinkWrites(wrote) \o <<"ColumnClose">>

\* one round of writeNextColumn: FillParquetBatch, WriteBatch, and
\* rowIDStart += len(defLevels); an error of either call is returned
PwBatch ==
    /\ impl = "pw"
    /\ pwpc = "batch"
    /\ pwRound < Rounds
    /\ fillCalls' = Append(fillCalls, [col |-> currCol, rowIDStart |-> rowIDStart,
                                       n |-> BatchSize])
    /\ \E fillOk, writeOk, wrote, wrote2 \in BOOLEAN :
         IF ~fillOk
         THEN /\ pwLog' = pwLog \o ColumnReturn(wrote2)
              /\ pwpc' = "done"
              /\ pwErr' = <<"column", currCol>>
              /\ UNCHANGED <<rowIDStart, pwRound>>
         ELSE /\ rowIDStart' = rowIDStart + BatchSize
              /\ IF writeOk
                 THEN /\ pwLog' = pwLog \o SinkWrites(wrote)
                      /\ pwRound' = pwRound + 1
                      /\ UNCHANGED <<pwpc, pwErr>>
                 ELSE /\ pwLog' = pwLog \o SinkWrites(wrote) \o ColumnReturn(wrote2)
                      /\ pwpc' = "done"
                      /\ pwErr' = <<"column", currCol>>
                      /\ pwRound' = pwRound
    /\ UNCHANGED <<fixedVars, genVars, cmdVars, bldVars, orchVars, numCols, pwRgs,
                   currCol, startRowID>>

\* writeNextColumn returns after its last round; Write goes to the next column
PwColumnReturn ==
    /\ impl = "pw"
    /\ pwpc = "batch"
    /\ pwRound = Rounds
    /\ \E wrote \in BOOLEAN : pwLog' = pwLog \o ColumnReturn(wrote)
    /\ currCol' = currCol + 1
    /\ pwpc' = "col"
    /\ UNCHANGED <<fixedVars, genVars, cmdVars, bldVars, orchVars, numCols, pwErr,
                   pwRgs, pwRound, startRowID, rowIDStart, fillCalls>>

\* mutant: every row group starts at the first row of the file
NextStartRowID_Stays(s) == s

\* startRowID += pw.rowsPerRowGroup
NextStartRowID(s) == s + RowsPerRowGroup

\* ParquetWriter.Write after the last column of a row group: rgw.Close()
PwRowGroupClose ==
    /\ impl = "pw"
    /\ pwpc = "col"
    /\ currCol = numCols
    /\ startRowID' = NextStartRowID(startRowID)
    /\ \E wrote \in BOOLEAN : pwLog' = pwLog \o SinkWrites(wrote) \o <<"RowGroupClose">>
    /\ pwRgs' = pwRgs + 1
    /\ pwpc' = "rg"
    /\ UNCHANGED <<fixedVars, genVars, cmdVars, bldVars, orchVars, numCols, pwErr,
                   currCol, pwRound, rowIDStart, fillCalls>>

\* Write returned nil: pw.Close() closes the file writer, which writes the
\* footer to the sink; generateParquetCommon returns nil
PwClose ==
    /\ impl = "pw"
    /\ pwpc = "rg"
    /\ pwRgs = rowGroups
    /\ pwLog' = pwLog \o <<"SinkWrite", "FileClose">>
    /\ pwpc' = "done"
    /\ UNCHANGED <<fixedVars, genVars, cmdVars, bldVars, orchVars, numCols, pwErr,
                   pwRgs, currCol, pwRound, startRowID, rowIDStart, fillCalls>>

NextPw ==
    \/ PwInit
    \/ PwAppendRowGroup
    \/ PwNextColumn
    \/ PwBatch
    \/ PwColumnReturn
    \/ PwRowGroupClose
    \/ PwClose

(* ---------------- null decisions ---------------- *)
\* generateNULL with the draw r of rng.Intn(100)
GenerateNULL(c, r) == r < c.nullPercent

\* mutant: the comparison includes equality
GenerateBatchNull_Inclusive(c, bytes) ==
    [i \in 1..Len(bytes) |-> bytes[i] * 100 <= c.nullPercent * 256]

\* generateBatchNull with the bytes rng.Read delivered, one per row
GenerateBatchNull(c, bytes) ==
    [i \in 1..Len(bytes) |-> bytes[i] * 100 < c.nullPercent * 256]

\* a column with each null_percent and the decision taken for its first row
InitNull ==
    /\ impl = "null"
    /\ streaming = FALSE
    /\ threads = 1
    /\ format = "parquet"
    /\ rows = BatchSize
    /\ chunkRows = 1
    /\ encLens = [k \in 0..FooterStep |-> 1]
    /\ InitFiles /\ InitNoPw /\ InitNoCmd /\ InitNoBuild
    /\ col \in {[DefaultSpecs("int") EXCEPT !.nullPercent = p] : p \in 0..PercentMax}
    /\ genFile = StartFileNo
    /\ genRow = 0
    /\ genOut = <<>>

\* the per-row decision of the CSV path
NullRow ==
    /\ impl = "null"
    /\ genRow = 0
    /\ \E r \in 0..(PercentMax - 1) :
         genOut' = <<[fn |-> "generateNULL", draw |-> r, null |-> GenerateNULL(col, r)]>>
    /\ genRow' = 1
    /\ UNCHANGED <<fixedVars, cmdVars, bldVars, pwVars, orchVars, col, genFile>>

\* the batched decision of the Parquet path, for a batch of one row
NullBatch ==
    /\ impl = "null"
    /\ genRow = 0
    /\ \E b \in 0..ByteMax :
         genOut' = <<[fn |-> "generateBatchNull", draw |-> b,
                      null |-> GenerateBatchNull(col, <<b>>)[1]]>>
    /\ genRow' = 1
    /\ UNCHANGED <<fixedVars, cmdVars, bldVars, pwVars, orchVars, col, genFile>>

NextNull == NullRow \/ NullBatch

(* ---------------- decimal columns stored as INT32 / INT64 ---------------- *)
\* generateDecimalInt32Parquet / generateDecimalInt64Parquet on the buffers
\* out and defLevel. unscaled is what generateDecimalInt64Batch returns for
\* the null bytes and the draws of the batch: -1 for a null row, else
\* IntSet[rng.Intn(len)] or rng.Int63n(10^precision) (the draws of the model
\* are below 10^precision for every precision >= 1). The slot of a row with
\* a negative unscaled value keeps its old content
GenerateDecimalIntParquet(c, out, bytes, draws) ==
    LET nullMap == GenerateBatchNull(c, bytes)
        unscaled == [i \in 1..Len(bytes) |->
                       IF nullMap[i] THEN -1
                       ELSE IF Len(c.intSet) > 0
                            THEN c.intSet[(draws[i] % Len(c.intSet)) + 1]
                       ELSE draws[i]]
    IN [defLevel |-> [i \in 1..Len(out) |-> IF unscaled[i] < 0 THEN 0 ELSE 1],
        out |-> [i \in 1..Len(out) |->
                   IF unscaled[i] < 0 THEN out[i]
                   ELSE IF c.ptype = "INT32" THEN ToInt32(unscaled[i])
                   ELSE unscaled[i]]]

\* decimal columns of precision 5 (stored as INT32) and 12 (INT64); genOut
\* holds the last batch: the bytes and draws of the rng, and the buffers
\* after the fill; the value buffer starts zeroed (make in Init)
InitDec ==
    /\ impl = "dec"
    /\ streaming = FALSE
    /\ threads = 1
    /\ format = "parquet"
    /\ rows = BatchSize
    /\ chunkRows = 1
    /\ encLens = [k \in 0..FooterStep |-> 1]
    /\ InitFiles /\ InitNoPw /\ InitNoCmd /\ InitNoBuild
    /\ col \in {[DefaultSpecs("decimal") EXCEPT
                     !.precision = pr,
                     !.ptype = DeduceTypeForDecimal(pr).ptype,
                     !.typeLen = DeduceTypeForDecimal(pr).typeLen,
                     !.intSet = set, !.nullPercent = np] :
                  pr \in {5, 12}, set \in {<<>>, <<3, 8>>, <<-5, 7>>},
                  np \in {0, 50, PercentMax}}
    /\ genFile = StartFileNo
    /\ genRow = 0
    /\ genOut = <<[bytes |-> <<>>, draws |-> <<>>, defLevel |-> <<>>,
                   out |-> [i \in 1..DecBatchLen |-> 0]]>>

\* FillParquetBatch of a decimal column of type Int32 or Int64
DecBatch ==
    /\ impl = "dec"
    /\ genRow < MaxBatches
    /\ \E bytes \in [1..DecBatchLen -> {0, ByteMax}],
          draws \in [1..DecBatchLen -> 0..RngMax] :
         LET b == GenerateDecimalIntParquet(col, genOut[1].out, bytes, draws)
         IN genOut' = <<[bytes |-> bytes, draws |-> draws,
                         defLevel |-> b.defLevel, out |-> b.out]>>
    /\ genRow' = genRow + 1
    /\ UNCHANGED <<fixedVars, cmdVars, bldVars, pwVars, orchVars, col, genFile>>

NextDec == DecBatch

Next ==
    \/ \E f \in Files : RunGo(f)
    \/ RunWait
    \/ \E f \in Files : CsvSend(f)
    \/ \E f \in Files : CsvReturn(f)
    \/ \E f \in Files : UpOpen(f)
    \/ \E f \in Files : UpRecv(f)
    \/ \E f \in Files : PairWait(f)
    \/ \E f \in Files : DirOpen(f)
    \/ \E f \in Files : DirCsvWrite(f)
    \/ \E f \in Files : DirReturn(f)

NextPq ==
    \/ \E f \in Files : RunGo(f)
    \/ RunWait
    \/ \E f \in Files : PqEncWrite(f)
    \/ \E f \in Files : PqSinkSend(f)
    \/ \E f \in Files : PqSinkReturn(f)
    \/ \E f \in Files : PqReturn(f)
    \/ \E f \in Files : PqFail(f)
    \/ \E f \in Files : UpOpen(f)
    \/ \E f \in Files : UpRecv(f)
    \/ \E f \in Files : UpClosed(f)
    \/ \E f \in Files : PairWait(f)
    \/ \E f \in Files : DirOpen(f)
    \/ \E f \in Files : DirPqWrite(f)
    \/ \E f \in Files : DirReturn(f)

\* a create run over CSV files
Spec == Init /\ [][Next]_vars

\* a create run over CSV files against an object writer that may accept only
\* part of the bytes of a Write
NextPartial ==
    \/ \E f \in Files : RunGo(f)
    \/ RunWait
    \/ \E f \in Files : CsvSend(f)
    \/ \E f \in Files : CsvReturn(f)
    \/ \E f \in Files : UpOpen(f)
    \/ \E f \in Files : UpRecv(f)
    \/ \E f \in Files : UpRecvPartial(f)
    \/ \E f \in Files : PairWait(f)
    \/ \E f \in Files : DirOpen(f)
    \/ \E f \in Files : DirCsvWrite(f)
    \/ \E f \in Files : DirReturn(f)

SpecPartial == Init /\ [][NextPartial]_vars

\* a create run over Parquet files
SpecPq == InitPq /\ [][NextPq]_vars

\* a streaming run over CSV files driven by the StreamingCoordinator
SpecCoord == InitCoord /\ [][NextCoord]_vars

\* the values generated for one integer column of one file
SpecGen == InitGen /\ [][NextGen]_vars

\* a create command from its loaded configuration to its exit
SpecCreate == InitCreate /\ [][NextCreate]_vars

SpecBuild == InitBuild /\ [][NextBuild]_vars

\* the generation of one Parquet file by generateParquetCommon
SpecPw == InitPw /\ [][NextPw]_vars

\* the null decisions of one column
SpecNull == InitNull /\ [][NextNull]_vars

\* the batches of one decimal column stored as INT32 or INT64
SpecDec == InitDec /\ [][NextDec]_vars

\* a create run over CSV files under weak fairness: a goroutine that can take
\* a step is eventually scheduled
FairSpec == Init /\ [][Next]_vars /\ WF_vars(Next)

(* ---------------- properties ---------------- *)
\* the concatenated data of a sequence of chunks
ChData(cs) == Concat([i \in 1..Len(cs) |-> cs[i].data])

\* the chunks up to and including the first one with isLast
UpToLast(cs) ==
    LET lasts == {i \in 1..Len(cs) : cs[i].isLast}
    IN IF lasts = {} THEN cs
       ELSE SubSeq(cs, 1, CHOOSE i \in lasts : \A j \in lasts : i <= j)

CeilDiv(a, b) == (a + b - 1) \div b

Succeeded(f) == task[f] = "done" /\ fileErr[f] = Nil

Failed(f) == fileErr[f] # Nil

FailedInOrder == SelectSeq(doneSeq, Failed)

\* C1: in streaming mode the bytes handed to the object writer, followed by
\* the data still queued in the channel, are exactly the data of the chunks
\* the producer sent, in send order; for a file that returned without error
\* the bytes handed to Write are the data of the chunks sent up to and
\* including the first chunk with isLast
C1_ByteStream ==
    streaming =>
        \A f \in Files :
            /\ w[f].data \o ChData(ch[f]) = ChData(sent[f])
            /\ Succeeded(f) => w[f].data = ChData(UpToLast(sent[f]))

C1_Witness ==
    \E f \in Files :
        /\ streaming /\ Succeeded(f)
        /\ Len(sent[f]) >= 3
        /\ w[f].data = ChData(sent[f])

\* C2: once the Parquet encoder has flushed the footer and been closed, the
\* last chunk sent has isLast and the chunks sent carry every byte the encoder
\* wrote; a file generated without error delivered all those bytes
C2_FinalChunk ==
    streaming =>
        \A f \in Files :
            /\ (ppc[f] = "done" /\ enc[f].closed) =>
                   /\ sent[f] # <<>>
                   /\ sent[f][Len(sent[f])].isLast
                   /\ ChData(sent[f]) = enc[f].out
            /\ (Succeeded(f) /\ enc[f].closed) => w[f].data = enc[f].out

\* C3: once a file's uploader has stopped with an error its producer is not
\* left blocked on a send to the full channel
ProducerBlocked(f) ==
    ppc[f] = "gen" /\ rowOffset[f] < rows /\ Len(ch[f]) >= ChanCap

C3_ProducerReleased ==
    \A f \in Files :
        (streaming /\ upc[f] = "done" /\ uerr[f] # Nil) => ~ProducerBlocked(f)

\* C4: a file whose own uploader did not fail (the CSV producer has no
\* failure of its own) returns without error, and its uploader was handed
\* all of its rows, whatever happened to the other files
AllRows(f) == [k \in 1..rows |-> f * rows + (k - 1)]

C4_SiblingsUnaffected ==
    \A g \in Files :
        (impl = "coord" /\ task[g] = "done" /\ uerr[g] = Nil) =>
            /\ fileErr[g] = Nil
            /\ w[g].data = AllRows(g)

\* C5: never more than `threads` files are in flight, and every file index
\* is eventually started
C5_BoundedAndStarted ==
    /\ [](Cardinality(InFlight) <= threads)
    /\ <>(\A f \in Files : task[f] # "idle")

C8_FilesCounter ==
    /\ filesCount = Cardinality({f \in Files : Succeeded(f)})
    /\ (runpc = "returned" /\ runResult = Nil) => filesCount = EndFileNo - StartFileNo

C8_Witness ==
    /\ runpc = "returned"
    /\ filesCount = 1
    /\ \E f \in Files : Failed(f)

\* C9: a CSV streaming producer that has returned sent ceil(rows/chunkRows)
\* chunks holding the lines of rows f*rows .. f*rows+rows-1 once each in
\* increasing order, with isLast on the final chunk only
C9_CsvChunks ==
    \A f \in Files :
        (streaming /\ ppc[f] = "done") =>
            /\ Len(sent[f]) = CeilDiv(rows, chunkRows)
            /\ ChData(sent[f]) = [k \in 1..rows |-> f * rows + (k - 1)]
            /\ \A i \in 1..Len(sent[f]) : sent[f][i].isLast <=> (i = Len(sent[f]))

C9_Witness ==
    \E f \in Files :
        /\ streaming /\ ppc[f] = "done"
        /\ rows % chunkRows # 0
        /\ Len(sent[f]) >= 3

\* C10: for a unique integer column with empty int_set and stddev = 0,
\* declared without an order option or with total_order, the value emitted
\* for row k of file i is i*rows + k, in the CSV path (as decimal text) and
\* in the Parquet path
C10_UniqueIsRowID ==
    (/\ impl = "gen"
     /\ col.sqlType \in IntTypes
     /\ col.isUnique /\ col.intSet = <<>> /\ col.stdDev = 0
     /\ col.orderOpt \in {"", "total_order"}) =>
        \A j \in 1..Len(genOut) :
            genOut[j] = IF format = "csv"
                        THEN FormatInt(genFile * rows + (j - 1))
                        ELSE genFile * rows + (j - 1)

\* C11: a Parquet configuration whose rows are not a multiple of
\* row_groups * 50 is rejected by validation: the command never gets past
\* validation, creates no object and does not panic
C11_RejectedByValidation ==
    (/\ impl = "create" /\ format = "parquet"
     /\ rowGroups > 0 /\ rows > 0
     /\ rows % (rowGroups * BatchSize) # 0) =>
        /\ cmdpc \in {"validate", "rejected"}
        /\ created = {}

\* C12: with start_fileno = end_fileno and an otherwise valid configuration
\* the command creates no object and finishes without error
OtherwiseValid ==
    /\ otherOk /\ rows > 0
    /\ format = "parquet" => (rowGroups > 0 /\ rows % (rowGroups * BatchSize) = 0)

C12_EmptyRange ==
    (impl = "create" /\ cfgStart = cfgEnd /\ OtherwiseValid) =>
        /\ created = {}
        /\ cmdpc \in {"validate", "open", "done"}
        /\ cmdErr = Nil

\* GetSpecFromSQL has returned the specs of every column
BuildSucceeded == impl = "build" /\ buildpc = 0 /\ buildErr = Nil

\* C15: after schema build, whatever accepted comment a column carries
\* (several set= options and set=[] included), at most one of the column's
\* value_set and int_set is non-empty.
C15_SetsExclusive ==
    BuildSucceeded =>
        \A k \in 1..Len(buildSpecs) :
            ~(buildSpecs[k].valueSet # <<>> /\ buildSpecs[k].intSet # <<>>)

\* position i of comment c lies inside a double-quoted string
InsideQuotes(c, i) == Cardinality({j \in 1..(i - 1) : c[j] = Quote}) % 2 = 1

\* the number of brackets open before position i, quoted brackets not counted
DepthBefore(c, i) ==
    Cardinality({j \in 1..(i - 1) : c[j] = "[" /\ ~InsideQuotes(c, j)})
    - Cardinality({j \in 1..(i - 1) : c[j] = "]" /\ ~InsideQuotes(c, j)})

\* a comment with an unmatched bracket outside quotes or an unterminated quote
Malformed(c) ==
    \/ InsideQuotes(c, Len(c) + 1)
    \/ DepthBefore(c, Len(c) + 1) # 0
    \/ \E i \in 1..Len(c) : DepthBefore(c, i + 1) < 0

\* the elements of a set of positions in increasing order
Ascending(S) ==
    [n \in 1..Cardinality(S) |-> CHOOSE x \in S : Cardinality({y \in S : y < x}) = n - 1]

\* the comment without the spaces that lie outside quotes
Trimmed(c) ==
    LET keep == Ascending({i \in 1..Len(c) : c[i] # " " \/ InsideQuotes(c, i)})
    IN [n \in 1..Len(keep) |-> c[keep[n]]]

\* the non-empty pieces of a comment between the commas that lie outside
\* brackets and outside quotes
TopLevelPieces(c) ==
    LET cuts == Ascending({0, Len(c) + 1} \cup
                    {i \in 1..Len(c) : /\ c[i] = ","
                                       /\ ~InsideQuotes(c, i)
                                       /\ DepthBefore(c, i) = 0})
        pieces == [n \in 1..(Len(cuts) - 1) |-> SubSeq(c, cuts[n] + 1, cuts[n + 1] - 1)]
    IN SelectSeq(pieces, LAMBDA piece : piece # <<>>)

\* C18: the options handed to the option handler are the pieces of the
\* comment between the commas outside brackets and quotes, each with its
\* brackets, its quoted strings and every character inside the quotes
\* unchanged.
C18_OptionsPreserved ==
    impl = "build" =>
        \A k \in 1..Len(buildOpts) :
            ~Malformed(tbl.cols[k].comment) =>
                buildOpts[k] = TopLevelPieces(Trimmed(tbl.cols[k].comment))

\* the keys the option handler recognizes
RecognizedKeys ==
    {<<"null_percent">>, <<"max_length">>, <<"min_length">>, <<"mean">>,
     <<"stddev">>, <<"compress">>, <<"set">>, <<"order">>}

\* a well-formed comment all of whose options are key=value with a key the
\* handler does not recognize
OnlyUnrecognized(c) ==
    /\ ~Malformed(c)
    /\ TopLevelPieces(Trimmed(c)) # <<>>
    /\ \A n \in 1..Len(TopLevelPieces(Trimmed(c))) :
          LET o == TopLevelPieces(Trimmed(c))[n]
          IN /\ \E i \in 1..Len(o) : o[i] = "="
             /\ \A key \in RecognizedKeys :
                   ~(Len(o) > Len(key) /\ SubSeq(o, 1, Len(key) + 1) = key \o <<"=">>)

\* C19, malformed comments: once the build has returned for a table with a
\* column whose comment is malformed, it has returned an error that names
\* that column, and no specs.
C19_MalformedNamed ==
    (impl = "build" /\ buildpc = 0) =>
        \A k \in 1..Len(tbl.cols) :
            Malformed(tbl.cols[k].comment) =>
                /\ buildErr # Nil
                /\ buildErr.column = tbl.cols[k].name
                /\ buildSpecs = <<>>

\* C19, unrecognized keys: a column whose comment holds only options with
\* unrecognized keys is built as the same column without a comment.
C19_UnrecognizedIgnored ==
    (impl = "build" /\ buildpc = 0) =>
        \A k \in 1..Len(tbl.cols) :
            OnlyUnrecognized(tbl.cols[k].comment) =>
                /\ buildErr = Nil
                /\ Len(buildSpecs) = Len(tbl.cols)
                /\ buildSpecs[k] =
                      [ColumnBuild([tbl.cols[k] EXCEPT !.comment = <<>>]).spec
                          EXCEPT !.isUnique = (k \in tbl.unique)]

\* C19: a comment with an unmatched bracket outside quotes or an unterminated
\* quote fails the build with an error naming the column and yields no
\* specs; an option with an unrecognized key is ignored.
C19_MalformedFails == C19_MalformedNamed /\ C19_UnrecognizedIgnored

\* a < b for two big integers
BigLess(a, b) ==
    \/ Len(a) < Len(b)
    \/ /\ Len(a) = Len(b)
       /\ \E i \in 1..Len(a) : a[i] < b[i] /\ \A j \in (i + 1)..Len(a) : a[j] = b[j]

\* 2^k as a big integer
BigPow2(k) ==
    [i \in 1..(k \div WordBits + 1) |->
        IF i = k \div WordBits + 1 THEN Pow2(k % WordBits) ELSE 0]

\* 10^p - 1 < 2^k
MaxUnscaledBelowPow2(p, k) == BigLess(BigSubOne(BigExp(10, p)), BigPow2(k))

C13_UniqueStringsAreUuids ==
    (impl = "gen" /\ col.sqlType \in StringTypes /\ col.isUnique) =>
        /\ \A j \in 1..Len(genOut) : genOut[j].uuid > 0
        /\ \A i, j \in 1..Len(genOut) : i # j => genOut[i] # genOut[j]

\* C14: generating values (generateInt, generateString, the Parquet batch
\* fillers) writes no field of the ColumnSpec.
C14_SpecUnchanged == [][impl = "gen" => col' = col]_vars

\* values have been generated for a unique integer column, the one case in
\* which generateInt has an assignment to the spec
C14_Witness ==
    /\ impl = "gen"
    /\ col.sqlType \in IntTypes
    /\ col.isUnique /\ col.intSet = <<>> /\ col.stdDev = 0
    /\ Len(genOut) >= 2

\* the members of a set option as a set
SetMembers(q) == {q[n] : n \in 1..Len(q)}

C17_MinLenRange ==
    BuildSucceeded =>
        \A k \in 1..Len(buildSpecs) :
            buildSpecs[k].sqlType \in StringTypes =>
                /\ 0 <= buildSpecs[k].minLen
                /\ buildSpecs[k].minLen <= buildSpecs[k].typeLen
                /\ (~buildSpecs[k].isUnique /\ buildSpecs[k].valueSet = <<>>) =>
                      \A r \in 0..RngMax :
                          /\ Len(GenerateString(buildSpecs[k], r, 1).s) >= buildSpecs[k].minLen
                          /\ Len(GenerateString(buildSpecs[k], r, 1).s) <= buildSpecs[k].typeLen

\* C21: when the first error of a file's pair is its producer's, then once
\* the pair has returned, the channel is closed and drained by the uploader,
\* the object writer is closed, and the pair has returned the producer's
\* error, not an error that came later.
C21_ProducerErrFirst ==
    \A f \in Files :
        (/\ impl = "coord"
         /\ task[f] = "done"
         /\ perr[f] # Nil
         /\ pairErr[f] = perr[f]) =>
            /\ chClosed[f]
            /\ w[f].opened => w[f].closed = 1
            /\ fileErr[f] = perr[f]

\* C22: once the context is cancelled a producer sends no further chunk: its
\* next send attempt returns the context error whether or not the channel
\* has room, and a sink's lastSent does not move for a chunk that was not
\* sent.
C22_NoSendAfterCancel ==
    [][\A f \in Files :
          (impl = "coord" /\ ctxCancelled) =>
              /\ sent'[f] = sent[f]
              /\ sink'[f].lastSent = sink[f].lastSent]_vars

\* the Write of file f's sink is not in progress
WriteReturned(f) == ppc[f] # "sinkloop"

\* C23: after every Write of the Parquet streaming sink that returns without
\* error, 0 <= lastSent <= buffered length, fewer than target_chunk_bytes
\* bytes are buffered and unsent, and lastSent < 4 * target_chunk_bytes;
\* every chunk Write has sent has is_last = false and exactly
\* target_chunk_bytes bytes.
C23_SinkBounds ==
    (impl = "orch" /\ streaming /\ format = "parquet") =>
        \A f \in Files :
            /\ WriteReturned(f) =>
                  /\ 0 <= sink[f].lastSent
                  /\ sink[f].lastSent <= Len(sink[f].buf)
                  /\ Len(sink[f].buf) - sink[f].lastSent < ChunkSize
                  /\ sink[f].lastSent < 4 * ChunkSize
            /\ \A i \in 1..Len(sent[f]) :
                  ~sent[f][i].isLast /\ Len(sent[f][i].data) = ChunkSize

\* a Write has returned after it sent the fourth chunk and compacted the
\* buffer, with a byte left unsent
C23_Witness ==
    \E f \in Files :
        /\ impl = "orch" /\ streaming /\ format = "parquet"
        /\ WriteReturned(f)
        /\ Len(sent[f]) >= 4
        /\ sink[f].lastSent = 0
        /\ Len(sink[f].buf) > 0

\* C24: the chunks sent so far followed by the sink's unsent buffered bytes
\* are all the bytes the encoder has written so far, before and after a
\* compaction, and the chunks queued in the channel are still the chunks as
\* they were sent.
C24_SinkFrame ==
    (impl = "orch" /\ streaming /\ format = "parquet") =>
        \A f \in Files :
            /\ ChData(sent[f])
                  \o SubSeq(sink[f].buf, sink[f].lastSent + 1, Len(sink[f].buf))
               = enc[f].out
            /\ Len(ch[f]) <= Len(sent[f])
            /\ ch[f] = SubSeq(sent[f], Len(sent[f]) - Len(ch[f]) + 1, Len(sent[f]))

\* the encoder has been closed after a compaction that kept an unsent tail
C24_Witness ==
    \E f \in Files :
        /\ impl = "orch" /\ streaming /\ format = "parquet"
        /\ enc[f].closed
        /\ sink[f].lastSent = 0
        /\ sink[f].buf # <<>>
        /\ sink[f].buf = SubSeq(enc[f].out, 4 * ChunkSize + 1, Len(enc[f].out))

\* the chunks queued in f's channel are the chunks sent last, as they were sent
QueuedAsSent(f) ==
    /\ Len(ch[f]) <= Len(sent[f])
    /\ ch[f] = SubSeq(sent[f], Len(sent[f]) - Len(ch[f]) + 1, Len(sent[f]))

\* C25: a file's channel never holds more than 4 chunks, so the producer is
\* never more than 4 chunks ahead of the uploader, and while the channel is
\* full the producer sends nothing and no queued chunk is dropped or
\* overwritten.
C25_ChannelBound ==
    [][\A f \in Files :
          /\ Len(ch'[f]) <= ChanCap
          /\ QueuedAsSent(f)'
          /\ Len(ch[f]) >= ChanCap => sent'[f] = sent[f]]_vars

\* a producer with a chunk left to send is held by a channel of 4 queued chunks
C25_Witness ==
    \E f \in Files :
        /\ streaming
        /\ ProducerBlocked(f)
        /\ Len(sent[f]) - Len(ch[f]) >= 0
        /\ Len(ch[f]) = ChanCap

\* the chunks the uploader of file f has taken from the channel
Received(f) == SubSeq(sent[f], 1, Len(sent[f]) - Len(ch[f]))

\* C26: while the uploader has met no error, the content of the object equals
\* the concatenation of the data of all chunks the uploader received, also
\* when the writer accepts only part of the bytes of a Write
C26_ContentIsChunks ==
    \A f \in Files :
        (impl = "orch" /\ streaming /\ uerr[f] = Nil) =>
            w[f].stored = ChData(Received(f))

\* the number of events e among the first n entries of the log
CountIn(log, e, n) == Cardinality({j \in 1..n : log[j] = e})

\* before entry i of the log every opened thing has been closed
AllClosedBefore(log, open, close, i) ==
    CountIn(log, open, i - 1) = CountIn(log, close, i - 1)

GeneratedWithoutError == impl = "pw" /\ pwpc = "done" /\ pwErr = Nil

\* C27: in a Parquet file generated without error each column writer is
\* closed before the next column is opened and before the row group is
\* closed, each row-group writer is closed before the next row group is
\* appended, the file writer is closed only after all row groups are closed,
\* and nothing is written to the sink after the file writer is closed
C27_CloseOrder ==
    GeneratedWithoutError =>
        /\ \A i \in 1..Len(pwLog) :
             /\ pwLog[i] = "NextColumn" =>
                    AllClosedBefore(pwLog, "NextColumn", "ColumnClose", i)
             /\ pwLog[i] = "RowGroupClose" =>
                    AllClosedBefore(pwLog, "NextColumn", "ColumnClose", i)
             /\ pwLog[i] = "AppendRowGroup" =>
                    AllClosedBefore(pwLog, "AppendRowGroup", "RowGroupClose", i)
             /\ pwLog[i] = "FileClose" =>
                    /\ CountIn(pwLog, "AppendRowGroup", i - 1) = rowGroups
                    /\ CountIn(pwLog, "RowGroupClose", i - 1) = rowGroups
                    /\ CountIn(pwLog, "NextColumn", i - 1) = rowGroups * numCols
                    /\ CountIn(pwLog, "ColumnClose", i - 1) = rowGroups * numCols
                    /\ \A j \in (i + 1)..Len(pwLog) : pwLog[j] # "SinkWrite"
        /\ CountIn(pwLog, "FileClose", Len(pwLog)) = 1

C27_Witness ==
    /\ GeneratedWithoutError
    /\ rowGroups = 2
    /\ numCols = 2
    /\ CountIn(pwLog, "SinkWrite", Len(pwLog)) > rowGroups * numCols

\* the FillParquetBatch calls made for column c, in call order
CallsOf(c) == SelectSeq(fillCalls, LAMBDA x : x.col = c)

\* C28: for file i with R rows in G row groups, R divisible by 50*G, the
\* batch filler of every column is called exactly R/50 times with batches of
\* 50 and rowIDStart = i*R + 50*j for j = 0..R/50-1 in this order, the same
\* for every column, so each column is given exactly R definition levels
C28_BatchCalls ==
    (GeneratedWithoutError /\ rows % (BatchSize * rowGroups) = 0) =>
        \A c \in 0..(numCols - 1) :
            /\ Len(CallsOf(c)) = rows \div BatchSize
            /\ \A j \in 1..Len(CallsOf(c)) :
                 /\ CallsOf(c)[j].n = BatchSize
                 /\ CallsOf(c)[j].rowIDStart = curFile * rows + BatchSize * (j - 1)
            /\ Len(CallsOf(c)) * BatchSize = rows

C28_Witness ==
    /\ GeneratedWithoutError
    /\ rowGroups = 2
    /\ numCols = 2
    /\ rows = 2 * BatchSize * rowGroups
    /\ curFile > 1

\* the byte values the batched decision marks null for column c
NullBytes(c) == {b \in 0..ByteMax : GenerateBatchNull(c, <<b>>)[1]}

\* the draws of [0,100) the per-row decision marks null for column c
NullDraws(c) == {r \in 0..(PercentMax - 1) : GenerateNULL(c, r)}

Abs(x) == IF x < 0 THEN 0 - x ELSE x

\* C30: for null_percent p in 0..100 the batched decision marks no byte value
\* when p = 0, all 256 when p = 100, and a fraction of the 256 byte values
\* within 1/256 of p/100, the fraction of the per-row decision
C30_BatchNullFraction ==
    impl = "null" =>
        LET p == col.nullPercent
            k == Cardinality(NullBytes(col))
            n == ByteMax + 1
        IN /\ p = 0 => k = 0
           /\ p = PercentMax => k = n
           /\ Cardinality(NullDraws(col)) = p
           /\ Abs(k * PercentMax - p * n) < PercentMax

\* null_percent = 1 marks the three byte values 0, 1, 2
C30_Witness ==
    /\ impl = "null"
    /\ col.nullPercent = 1
    /\ genOut # <<>>
    /\ genOut[1].fn = "generateBatchNull"
    /\ genOut[1].draw = 2
    /\ genOut[1].null

\* the value drawn for a non-null row of column c with the draw r
DrawnValue(c, r) == IF Len(c.intSet) > 0 THEN c.intSet[(r % Len(c.intSet)) + 1] ELSE r

\* C29: in a batch of a DECIMAL column stored as INT32 or INT64 a row has
\* definition level 0 exactly when its null decision was null, and every
\* non-null row has definition level 1 and its drawn value, negative members
\* of int_set included
C29_DefLevelIffNull ==
    (impl = "dec" /\ genRow > 0) =>
        LET b == genOut[1]
            nullMap == GenerateBatchNull(col, b.bytes)
        IN \A i \in 1..DecBatchLen :
              /\ b.defLevel[i] = 0 <=> nullMap[i]
              /\ ~nullMap[i] =>
                    /\ b.defLevel[i] = 1
                    /\ b.out[i] = DrawnValue(col, b.draws[i])

====
